---- MODULE Spec2Model ----
(***************************************************************************)
(* Model of src/src/scraper/orderbook_logic.py: the weighted fill          *)
(* calculator (OrderbookAnalyzer.get_weighted_price) and the spread        *)
(* analyzer (OrderbookAnalyzer.calculate_spreads).                         *)
(*                                                                         *)
(* decimal.Decimal values are modelled by their numeric value, an exact    *)
(* fraction <<numerator, denominator>> in lowest terms.  Addition,         *)
(* subtraction and multiplication of Decimals are exact at the default     *)
(* context precision of 28 significant digits for every value the bounded  *)
(* inputs below produce; a quotient is kept exact until a quantize rounds  *)
(* it.  The exponent of a Decimal (its trailing zeros) is not modelled.    *)
(***************************************************************************)
EXTENDS Integers, Sequences, FiniteSets, TLC

VARIABLES
    configured,         \* the arguments the OrderbookAnalyzer was constructed with
    precision,          \* self.precision of the OrderbookAnalyzer
    pc,                 \* position of the call in progress
    orders,             \* get_weighted_price: argument, list of raw entries
    target_amount,      \* get_weighted_price: argument, a Decimal
    order_levels,       \* get_weighted_price: local, the parsed OrderLevels
    idx,                \* get_weighted_price: position of the for loop
    remaining_quote,    \* get_weighted_price: local
    total_base_traded,  \* get_weighted_price: local
    total_quote_spent,  \* get_weighted_price: local
    ret,                \* outcome of get_weighted_price
    market_orderbook,   \* calculate_spreads: argument
    levels,             \* calculate_spreads: argument, requested notionals
    results,            \* outcome of calculate_spreads
    bars,               \* aggregate_bars: argument, a list of items
    aggregated,         \* outcome of aggregate_bars
    calls,              \* the calls of get_weighted_price made so far
    table,              \* the items of the DynamoDB table
    aggregation_type,   \* aggregate_handler: "1h" or "1d"
    market_idx,         \* roll-up: position of the loop over the markets
    processed_items,    \* roll-up: local
    rollup,             \* outcome of aggregate_to_hourly / aggregate_to_daily
    stored              \* outcome of store_in_dynamodb

vars == <<configured, precision, pc, orders, target_amount, order_levels, idx,
          remaining_quote, total_base_traded, total_quote_spent, ret,
          market_orderbook, levels, results, bars, aggregated, calls,
          table, aggregation_type, market_idx, processed_items, rollup, stored>>

fillVars == <<orders, target_amount, order_levels, idx, remaining_quote,
              total_base_traded, total_quote_spent, ret>>

spreadVars == <<market_orderbook, levels, results>>

barVars == <<bars, aggregated>>

callVars == <<calls>>

shellVars == <<table, aggregation_type, market_idx, processed_items, rollup, stored>>

-----------------------------------------------------------------------------
(* Bounds of the model.                                                    *)

MaxLevels == 3          \* longest orders list given to get_weighted_price
MaxPrecision == 2       \* largest precision an analyzer is constructed with
MaxBookDepth == 2       \* longest asks / bids list of an orderbook
MaxRequested == 2       \* longest sequence of requested levels

-----------------------------------------------------------------------------
(* decimal.Decimal arithmetic on exact fractions.                          *)

Abs(n) == IF n < 0 THEN -n ELSE n

RECURSIVE Gcd(_, _)
Gcd(a, b) == IF b = 0 THEN a ELSE Gcd(b, a % b)

\* What a division by zero leaves in place of a value: x / 0 signals
\* decimal.DivisionByZero and 0 / 0 decimal.InvalidOperation
\* (DivisionUndefined).  Both are raised, so the statement that divides
\* ends the call (Outcome below); arithmetic keeps the mark until then.
DivisionByZero == <<1, 0>>
DivisionUndefined == <<0, 0>>

\* the fraction n / d (d > 0) in lowest terms
Norm(n, d) ==
    IF d = 0 THEN (IF n = 0 THEN DivisionUndefined ELSE DivisionByZero)
    ELSE LET Reduce(g) == <<n \div g, d \div g>> IN Reduce(Gcd(Abs(n), d))

Zero == <<0, 1>>
DecInt(n) == <<n, 1>>

DecAdd(x, y) == Norm(x[1] * y[2] + y[1] * x[2], x[2] * y[2])
DecSub(x, y) == Norm(x[1] * y[2] - y[1] * x[2], x[2] * y[2])
DecMul(x, y) == Norm(x[1] * y[1], x[2] * y[2])
\* x / y
DecDiv(x, y) ==
    IF y[1] = 0 THEN (IF x[1] = 0 THEN DivisionUndefined ELSE DivisionByZero)
    ELSE IF y[1] > 0 THEN Norm(x[1] * y[2], x[2] * y[1])
    ELSE Norm(-(x[1] * y[2]), x[2] * (-y[1]))
DecLt(x, y) == x[1] * y[2] < y[1] * x[2]
DecLe(x, y) == x[1] * y[2] <= y[1] * x[2]
DecGt(x, y) == DecLt(y, x)
DecGe(x, y) == DecLe(y, x)

RECURSIVE Pow10(_)
Pow10(k) == IF k = 0 THEN 1 ELSE 10 * Pow10(k - 1)

\* Long division: <<floor(a * 10^places / d), remainder>> from q = a \div d
\* and r = a % d, one decimal digit per step.
RECURSIVE ScaledFloor(_, _, _, _)
ScaledFloor(q, r, d, places) ==
    IF places = 0 THEN <<q, r>>
    ELSE ScaledFloor(q * 10 + (r * 10) \div d, (r * 10) % d, d, places - 1)

\* value.quantize(Decimal('0.1') ** places, rounding=ROUND_HALF_UP):
\* the nearest multiple of 10^-places, a tie going away from zero.
quantize(value, places) ==
    IF value[2] = 0 THEN value
    \* a multiple of 10^-places is its own nearest multiple
    ELSE IF Pow10(places) % value[2] = 0 THEN value
    ELSE
    LET RoundHalfUp(qr) == IF 2 * qr[2] >= value[2] THEN qr[1] + 1 ELSE qr[1]
        Signed(k) == Norm(IF value[1] < 0 THEN -k ELSE k, Pow10(places))
    IN  Signed(RoundHalfUp(ScaledFloor(Abs(value[1]) \div value[2],
                                       Abs(value[1]) % value[2],
                                       value[2], places)))

-----------------------------------------------------------------------------
(* Decimal(str): the constructor applied to a raw field of an entry.       *)

\* The Python object None where a string is expected (a JSON null).
None == "<None>"

DigitChars == "0123456789"
Char(s, i) == SubSeq(s, i, i)
IsDigit(c) == \E k \in 1..10 : Char(DigitChars, k) = c
DigitVal(c) == (CHOOSE k \in 1..10 : Char(DigitChars, k) = c) - 1

RECURSIVE DigitsToInt(_, _)
\* the number a string of digits denotes, acc being the digits read so far
DigitsToInt(s, acc) ==
    IF Len(s) = 0 THEN acc
    ELSE DigitsToInt(Tail(s), acc * 10 + DigitVal(Char(s, 1)))

Raise(exc, msg) == [status |-> "raise", exc |-> exc, msg |-> msg, value |-> <<>>]
Return(value) == [status |-> "return", exc |-> "", msg |-> "", value |-> value]

\* How a function that computed the record rec ends: by raising when one of
\* its divisions had a zero denominator, by returning rec otherwise.
Outcome(rec) ==
    IF \E f \in DOMAIN rec \ {"market_id"} : rec[f] = DivisionByZero
    THEN Raise("DivisionByZero", "division by zero")
    ELSE IF \E f \in DOMAIN rec \ {"market_id"} : rec[f] = DivisionUndefined
    THEN Raise("InvalidOperation", "DivisionUndefined")
    ELSE Return(rec)

AllDigits(s) == \A i \in 1..Len(s) : IsDigit(Char(s, i))

\* position of the first "." of s, Len(s) + 1 when there is none
FirstDot(s) ==
    IF \E i \in 1..Len(s) : Char(s, i) = "."
    THEN CHOOSE i \in 1..Len(s) :
             Char(s, i) = "." /\ \A j \in 1..(i - 1) : Char(s, j) # "."
    ELSE Len(s) + 1

\* the unsigned part of a numeric string: digits [. digits] with at least
\* one digit; a second "." lands in the fraction and is no digit
Unsigned(sign, body) ==
    LET Make(ip, fp) ==
            IF Len(ip) + Len(fp) >= 1 /\ AllDigits(ip) /\ AllDigits(fp)
            THEN Return(Norm(sign * (DigitsToInt(ip, 0) * Pow10(Len(fp))
                                     + DigitsToInt(fp, 0)),
                             Pow10(Len(fp))))
            ELSE Raise("InvalidOperation", "ConversionSyntax")
        SplitAt(dot) == Make(SubSeq(body, 1, dot - 1),
                             SubSeq(body, dot + 1, Len(body)))
    IN  SplitAt(FirstDot(body))

\* Decimal(value): [sign] digits [. digits], at least one digit.  Anything
\* else is a ConversionSyntax, raised as decimal.InvalidOperation, which is
\* an ArithmeticError and neither a ValueError nor a TypeError.  A value
\* that is no string (None) raises TypeError.
Decimal(value) ==
    IF value = None
    THEN Raise("TypeError", "conversion from NoneType to Decimal is not supported")
    ELSE IF Len(value) > 0 /\ Char(value, 1) = "-" THEN Unsigned(-1, Tail(value))
    ELSE IF Len(value) > 0 /\ Char(value, 1) = "+" THEN Unsigned(1, Tail(value))
    ELSE Unsigned(1, value)

-----------------------------------------------------------------------------
(* Level model: OrderLevel.from_strings and the list comprehension of      *)
(* get_weighted_price that applies it to every entry of orders.            *)

\* OrderLevel.from_strings(price_str, quantity_str): price is converted
\* first, quantity second; the first failure is the one raised.
from_strings(price_str, quantity_str) ==
    LET Make(p, q) ==
            IF p.status = "raise" THEN p
            ELSE IF q.status = "raise" THEN q
            ELSE Return([price |-> p.value, quantity |-> q.value])
    IN  Make(Decimal(price_str), Decimal(quantity_str))

\* One step of "for price, qty in orders": the entry is unpacked into
\* exactly two names (ValueError otherwise), then handed to from_strings.
ParseEntry(entry) ==
    IF Len(entry) < 2 THEN Raise("ValueError", "not enough values to unpack")
    ELSE IF Len(entry) > 2 THEN Raise("ValueError", "too many values to unpack")
    ELSE from_strings(entry[1], entry[2])

\* [OrderLevel.from_strings(price, qty) for price, qty in orders]: the
\* entries are converted in list order from position i on, acc being the
\* levels built so far; the first failure ends the comprehension.
RECURSIVE Comprehension(_, _, _)
Comprehension(os, i, acc) ==
    IF i > Len(os) THEN Return(acc)
    ELSE LET Collect(e) ==
                 IF e.status = "raise" THEN e
                 ELSE Comprehension(os, i + 1, Append(acc, e.value))
         IN  Collect(ParseEntry(os[i]))

\* A variant of the conversion that leaves out the entries that do not
\* convert instead of raising.
RECURSIVE ParseOrders_SkipsBad(_)
ParseOrders_SkipsBad(os) ==
    IF Len(os) = 0 THEN Return(<<>>)
    ELSE LET Keep(e, rest) ==
                 IF e.status = "raise" THEN rest
                 ELSE Return(<<e.value>> \o rest.value)
         IN  Keep(ParseEntry(Head(os)), ParseOrders_SkipsBad(Tail(os)))

\* the comprehension inside try / except (ValueError, TypeError): a
\* ValueError or a TypeError is re-raised as
\* ValueError("Invalid order data: ..."); any other exception
\* (decimal.InvalidOperation) passes the except clause.
ParseOrders(os) ==
    LET Except(r) ==
            IF r.status = "raise" /\ r.exc \in {"ValueError", "TypeError"}
            THEN Raise("ValueError", "Invalid order data")
            ELSE r
    IN  Except(Comprehension(os, 1, <<>>))

-----------------------------------------------------------------------------
(* OrderbookAnalyzer.__init__                                              *)

\* the default of the parameter precision
DefaultPrecision == 8

\* OrderbookAnalyzer(*args): self.precision of the analyzer constructed with
\* the positional arguments args, <<>> or <<precision>>
OrderbookAnalyzer(args) ==
    IF Len(args) = 0 THEN DefaultPrecision ELSE args[1]

-----------------------------------------------------------------------------
(* OrderbookAnalyzer._round_decimal                                        *)

\* _round_decimal(value, places) with places given
_round_decimal(value, places) == quantize(value, places)

\* A variant of the rounding without places that rounds to 2 digits.
_round_decimal_TwoPlaces(self_precision, value) == _round_decimal(value, 2)

\* _round_decimal(value) with places None: places = self.precision
_round_decimal_default(self_precision, value) ==
    _round_decimal(value, self_precision)

-----------------------------------------------------------------------------
(* Weighted fill calculator: OrderbookAnalyzer.get_weighted_price          *)

\* the locals of the loop before its first iteration
LoopInit(target) ==
    [remaining_quote   |-> target,
     total_base_traded |-> Zero,
     total_quote_spent |-> Zero]

\* Variants of the loop body that the properties below must tell from the
\* body of the code: one that adds no base for a level taken whole, ...
LoopBody_DropsWholeBase(st, level) ==
    IF DecLe(level.price, Zero) \/ DecLe(level.quantity, Zero) THEN st
    ELSE IF DecGe(st.remaining_quote, DecMul(level.price, level.quantity))
    THEN [st EXCEPT !.remaining_quote = DecSub(@, DecMul(level.price, level.quantity)),
                    !.total_quote_spent = DecAdd(@, DecMul(level.price, level.quantity))]
    ELSE [remaining_quote   |-> Zero,
          total_base_traded |-> DecAdd(st.total_base_traded,
                                       DecDiv(st.remaining_quote, level.price)),
          total_quote_spent |-> DecAdd(st.total_quote_spent, st.remaining_quote)]

\* ... one that leaves remaining_quote as it is after a partial fill, ...
LoopBody_KeepsRemaining(st, level) ==
    IF DecLe(level.price, Zero) \/ DecLe(level.quantity, Zero) THEN st
    ELSE IF DecGe(st.remaining_quote, DecMul(level.price, level.quantity))
    THEN [remaining_quote   |-> DecSub(st.remaining_quote,
                                       DecMul(level.price, level.quantity)),
          total_base_traded |-> DecAdd(st.total_base_traded, level.quantity),
          total_quote_spent |-> DecAdd(st.total_quote_spent,
                                       DecMul(level.price, level.quantity))]
    ELSE [st EXCEPT !.total_base_traded =
                        DecAdd(@, DecDiv(st.remaining_quote, level.price)),
                    !.total_quote_spent = DecAdd(@, st.remaining_quote)]

\* ... one that ends the fill at an invalid level, ...
LoopBody_StopsAtInvalid(st, level) ==
    IF DecLe(level.price, Zero) \/ DecLe(level.quantity, Zero)
    THEN [st EXCEPT !.remaining_quote = Zero]
    ELSE IF DecGe(st.remaining_quote, DecMul(level.price, level.quantity))
    THEN [remaining_quote   |-> DecSub(st.remaining_quote,
                                       DecMul(level.price, level.quantity)),
          total_base_traded |-> DecAdd(st.total_base_traded, level.quantity),
          total_quote_spent |-> DecAdd(st.total_quote_spent,
                                       DecMul(level.price, level.quantity))]
    ELSE [remaining_quote   |-> Zero,
          total_base_traded |-> DecAdd(st.total_base_traded,
                                       DecDiv(st.remaining_quote, level.price)),
          total_quote_spent |-> DecAdd(st.total_quote_spent, st.remaining_quote)]

\* ... and one that skips a level on its quantity alone.
LoopBody_SkipsOnQuantityOnly(st, level) ==
    IF DecLe(level.quantity, Zero) THEN st
    ELSE IF DecGe(st.remaining_quote, DecMul(level.price, level.quantity))
    THEN [remaining_quote   |-> DecSub(st.remaining_quote,
                                       DecMul(level.price, level.quantity)),
          total_base_traded |-> DecAdd(st.total_base_traded, level.quantity),
          total_quote_spent |-> DecAdd(st.total_quote_spent,
                                       DecMul(level.price, level.quantity))]
    ELSE [remaining_quote   |-> Zero,
          total_base_traded |-> DecAdd(st.total_base_traded,
                                       DecDiv(st.remaining_quote, level.price)),
          total_quote_spent |-> DecAdd(st.total_quote_spent, st.remaining_quote)]

\* the body of "for level in order_levels" below the break test
LoopBody(st, level) ==
    IF DecLe(level.price, Zero) \/ DecLe(level.quantity, Zero)
    THEN st                                   \* continue: skip invalid level
    ELSE
    LET max_quote_at_level == DecMul(level.price, level.quantity) IN
    IF DecGe(st.remaining_quote, max_quote_at_level)
    THEN \* take the entire order level
         [remaining_quote   |-> DecSub(st.remaining_quote, max_quote_at_level),
          total_base_traded |-> DecAdd(st.total_base_traded, level.quantity),
          total_quote_spent |-> DecAdd(st.total_quote_spent, max_quote_at_level)]
    ELSE \* partially fill this level
         [remaining_quote   |-> Zero,
          total_base_traded |-> DecAdd(st.total_base_traded,
                                       DecDiv(st.remaining_quote, level.price)),
          total_quote_spent |-> DecAdd(st.total_quote_spent, st.remaining_quote)]

\* the loop from position i on: it ends at the end of the list or at the
\* break, "if remaining_quote <= 0"
RECURSIVE RunLoop(_, _, _)
RunLoop(lvls, i, st) ==
    IF i > Len(lvls) \/ DecLe(st.remaining_quote, Zero) THEN st
    ELSE RunLoop(lvls, i + 1, LoopBody(st, lvls[i]))

\* A variant of the statements after the loop that divides the rounded
\* totals instead of the totals.
FillResult_OfRoundedTotals(self_precision, st) ==
    [weighted_price       |->
         IF DecGt(_round_decimal_default(self_precision, st.total_base_traded), Zero)
         THEN _round_decimal_default(self_precision,
                  DecDiv(_round_decimal_default(self_precision, st.total_quote_spent),
                         _round_decimal_default(self_precision, st.total_base_traded)))
         ELSE Zero,
     actual_amount_filled |-> _round_decimal_default(self_precision, st.total_quote_spent),
     base_volume_traded   |-> _round_decimal_default(self_precision, st.total_base_traded)]

\* the statements after the loop: the weighted average and the rounding
FillResult(self_precision, st) ==
    LET weighted_price ==
            IF DecGt(st.total_base_traded, Zero)
            THEN DecDiv(st.total_quote_spent, st.total_base_traded)
            ELSE Zero
    IN  [weighted_price       |-> _round_decimal_default(self_precision, weighted_price),
         actual_amount_filled |-> _round_decimal_default(self_precision, st.total_quote_spent),
         base_volume_traded   |-> _round_decimal_default(self_precision, st.total_base_traded)]

\* the result returned for an empty orders list (not rounded)
EmptyResult ==
    [weighted_price |-> Zero, actual_amount_filled |-> Zero, base_volume_traded |-> Zero]

\* A variant of the guard that lets a target of zero through.
TargetRejected_NegativeOnly(target) == DecLt(target, Zero)

\* the guard on the target and what it raises
TargetRejected(target) == DecLe(target, Zero)
TargetError == Raise("ValueError", "Target amount must be positive")

\* A variant of the call that first puts the levels in price order, rising
\* for a buy and falling for a sale.
get_weighted_price_Sorting(self_precision, os, target, is_buying) ==
    IF TargetRejected(target) THEN TargetError
    ELSE IF Len(os) = 0 THEN Return(EmptyResult)
    ELSE LET InOrder(ls) ==
                 \A i \in 1..(Len(ls) - 1) :
                     IF is_buying THEN DecLe(ls[i].price, ls[i + 1].price)
                     ELSE DecGe(ls[i].price, ls[i + 1].price)
             ByPrice(ls) ==
                 CHOOSE s \in {[i \in 1..Len(ls) |-> ls[p[i]]] :
                                 p \in {q \in [1..Len(ls) -> 1..Len(ls)] :
                                          \A i, j \in 1..Len(ls) : q[i] = q[j] => i = j}} :
                     InOrder(s)
             Fill(parsed) ==
                 IF parsed.status = "raise" THEN parsed
                 ELSE Outcome(FillResult(self_precision,
                                         RunLoop(ByPrice(parsed.value), 1,
                                                 LoopInit(target))))
         IN  Fill(ParseOrders(os))

\* get_weighted_price as one call: what calculate_spreads gets back.
\* is_buying is accepted and never read.
get_weighted_price(self_precision, os, target, is_buying) ==
    IF TargetRejected(target) THEN TargetError
    ELSE IF Len(os) = 0 THEN Return(EmptyResult)
    ELSE LET Fill(parsed) ==
                 IF parsed.status = "raise" THEN parsed
                 ELSE Outcome(FillResult(self_precision,
                                         RunLoop(parsed.value, 1, LoopInit(target))))
         IN  Fill(ParseOrders(os))

-----------------------------------------------------------------------------
(* Inputs of get_weighted_price.                                           *)

\* raw entries of an orders list, as an exchange or a caller may send them
FillEntries ==
    { <<"100", "1">>,       \* valid level, capacity 100
      <<"100", "2">>,       \* valid level, capacity 200
      <<"3", "0.5">>,       \* valid level, capacity 1.5
      <<"100", "0">>,       \* parses, quantity not positive
      <<"-1", "1">>,        \* parses, price not positive
      <<"abc", "1">>,       \* price is no decimal number
      <<"100">> }           \* entry without a quantity

RECURSIVE SeqsUpTo(_, _)
\* the sequences over S of length at most n
SeqsUpTo(S, n) ==
    IF n = 0 THEN {<<>>}
    ELSE LET shorter == SeqsUpTo(S, n - 1)
         IN  shorter \cup {Append(q, x) : q \in {r \in shorter : Len(r) = n - 1}, x \in S}

FillOrders == SeqsUpTo(FillEntries, MaxLevels)

\* target_amount values: Decimal('150'), '1', '0.5', '0', '-1'
Targets == {DecInt(150), DecInt(1), <<1, 2>>, Zero, DecInt(-1)}

Precisions == 0..MaxPrecision

\* entries and targets small enough for their values at 8 fractional
\* digits to fit the integers of the model; an analyzer constructed without
\* a precision is given these
SmallEntries ==
    { <<"3", "0.5">>,       \* valid level, capacity 1.5
      <<"-1", "1">>,        \* parses, price not positive
      <<"abc", "1">> }      \* price is no decimal number
SmallOrders == SeqsUpTo(SmallEntries, MaxLevels)
SmallTargets == {DecInt(1), DecInt(2), <<1, 2>>}

\* the argument lists of OrderbookAnalyzer(...): none, or a precision
ConstructorArgs == {<<>>} \cup {<<p>> : p \in Precisions}

NoOutcome == [status |-> "none", exc |-> "", msg |-> "", value |-> <<>>]
NoOrderbook == [type |-> "none"]

-----------------------------------------------------------------------------
(* get_weighted_price, statement by statement.                             *)

FillInit ==
    /\ configured \in ConstructorArgs
    /\ precision = OrderbookAnalyzer(configured)
    /\ orders \in (IF Len(configured) = 0 THEN SmallOrders ELSE FillOrders)
    /\ target_amount \in (IF Len(configured) = 0 THEN SmallTargets ELSE Targets)
    /\ pc = "call"
    /\ order_levels = <<>>
    /\ idx = 0
    /\ remaining_quote = Zero
    /\ total_base_traded = Zero
    /\ total_quote_spent = Zero
    /\ ret = NoOutcome
    /\ market_orderbook = NoOrderbook
    /\ levels = <<>>
    /\ results = NoOutcome
    /\ bars = <<>>
    /\ aggregated = NoOutcome
    /\ calls = <<>>
    /\ table = {}
    /\ aggregation_type = ""
    /\ market_idx = 0
    /\ processed_items = 0
    /\ rollup = NoOutcome
    /\ stored = NoOutcome

LoopState ==
    [remaining_quote   |-> remaining_quote,
     total_base_traded |-> total_base_traded,
     total_quote_spent |-> total_quote_spent]

\* entry of the call up to the loop: the target guard, the empty-list
\* return, the initial locals and the conversion of the entries
GetWeightedPriceEnter ==
    /\ pc = "call"
    /\ IF TargetRejected(target_amount)
       THEN /\ ret' = TargetError
            /\ pc' = "done"
            /\ UNCHANGED <<order_levels, idx, remaining_quote,
                           total_base_traded, total_quote_spent>>
       ELSE IF Len(orders) = 0
       THEN /\ ret' = Return(EmptyResult)
            /\ pc' = "done"
            /\ UNCHANGED <<order_levels, idx, remaining_quote,
                           total_base_traded, total_quote_spent>>
       ELSE \E parsed \in {ParseOrders(orders)}, st \in {LoopInit(target_amount)} :
                /\ remaining_quote' = st.remaining_quote
                /\ total_base_traded' = st.total_base_traded
                /\ total_quote_spent' = st.total_quote_spent
                /\ IF parsed.status = "raise"
                   THEN /\ ret' = parsed
                        /\ pc' = "done"
                        /\ UNCHANGED <<order_levels, idx>>
                   ELSE /\ order_levels' = parsed.value
                        /\ idx' = 1
                        /\ pc' = "loop"
                        /\ UNCHANGED ret
    /\ UNCHANGED <<configured, precision, orders, target_amount>>
    /\ UNCHANGED spreadVars
    /\ UNCHANGED barVars
    /\ UNCHANGED callVars
    /\ UNCHANGED shellVars

\* one iteration of the loop that passes the break test
GetWeightedPriceIterate ==
    /\ pc = "loop"
    /\ idx <= Len(order_levels)
    /\ DecGt(remaining_quote, Zero)
    /\ \E st \in {LoopBody(LoopState, order_levels[idx])} :
           /\ remaining_quote' = st.remaining_quote
           /\ total_base_traded' = st.total_base_traded
           /\ total_quote_spent' = st.total_quote_spent
    /\ idx' = idx + 1
    /\ UNCHANGED <<configured, precision, pc, orders, target_amount,
                   order_levels, ret>>
    /\ UNCHANGED spreadVars
    /\ UNCHANGED barVars
    /\ UNCHANGED callVars
    /\ UNCHANGED shellVars

\* the loop ends (list exhausted, or break) and the result is returned
GetWeightedPriceReturn ==
    /\ pc = "loop"
    /\ idx > Len(order_levels) \/ DecLe(remaining_quote, Zero)
    /\ ret' = Outcome(FillResult(precision, LoopState))
    /\ pc' = "done"
    /\ UNCHANGED <<configured, precision, orders, target_amount, order_levels, idx,
                   remaining_quote, total_base_traded, total_quote_spent>>
    /\ UNCHANGED spreadVars
    /\ UNCHANGED barVars
    /\ UNCHANGED callVars
    /\ UNCHANGED shellVars

FillNext ==
    \/ GetWeightedPriceEnter
    \/ GetWeightedPriceIterate
    \/ GetWeightedPriceReturn

SpecFill == FillInit /\ [][FillNext]_vars

\* the statement-by-statement call and the one-call operator agree
FillAgreesWithCall ==
    pc = "done" /\ ret.status # "none" =>
        ret = get_weighted_price(precision, orders, target_amount, TRUE)

-----------------------------------------------------------------------------
(* Vocabulary of the properties of get_weighted_price.  Nothing below is   *)
(* used by the model of the code above.                                    *)

\* the error kinds: InvalidArgument is the ValueError of the target guard;
\* ParseError is what a failed conversion of an entry raises
IsInvalidArgument(o) ==
    o.status = "raise" /\ o.exc = "ValueError" /\ o.msg = "Target amount must be positive"
IsParseError(o) ==
    /\ o.status = "raise"
    /\ \/ o.exc = "InvalidOperation"
       \/ o.exc = "ValueError" /\ o.msg = "Invalid order data"

\* an entry both of whose fields are decimal numbers
EntryParses(e) ==
    /\ Len(e) = 2
    /\ Decimal(e[1]).status = "return"
    /\ Decimal(e[2]).status = "return"
EntryPrice(e) == Decimal(e[1]).value
EntryQuantity(e) == Decimal(e[2]).value
AllParse(os) == \A i \in 1..Len(os) : EntryParses(os[i])
\* a valid level: both fields positive
EntryValid(e) ==
    EntryParses(e) /\ DecGt(EntryPrice(e), Zero) /\ DecGt(EntryQuantity(e), Zero)
\* an invalid level: it parses and a field is zero or negative
EntryInvalid(e) == EntryParses(e) /\ ~EntryValid(e)
EntryCapacity(e) == DecMul(EntryPrice(e), EntryQuantity(e))

RECURSIVE CapacityOf(_, _)
\* sum of price * quantity over the valid levels among the first k entries
CapacityOf(os, k) ==
    IF k = 0 THEN Zero
    ELSE IF EntryValid(os[k])
         THEN DecAdd(CapacityOf(os, k - 1), EntryCapacity(os[k]))
         ELSE CapacityOf(os, k - 1)

RECURSIVE QuantityOf(_, _)
\* sum of the quantities of the valid levels among the first k entries
QuantityOf(os, k) ==
    IF k = 0 THEN Zero
    ELSE IF EntryValid(os[k])
         THEN DecAdd(QuantityOf(os, k - 1), EntryQuantity(os[k]))
         ELSE QuantityOf(os, k - 1)

\* what entry k is due to contribute to a fill of target t: nothing when it
\* is invalid or the valid levels before it already cover t, all of it when
\* what is left of t covers its capacity, and else what is left of t
DueOf(os, k, t) ==
    LET left == DecSub(t, CapacityOf(os, k - 1)) IN
    IF ~EntryValid(os[k]) \/ DecLe(left, Zero)
    THEN [kind |-> "none", base |-> Zero, quote |-> Zero]
    ELSE IF DecGe(left, EntryCapacity(os[k]))
    THEN [kind |-> "whole", base |-> EntryQuantity(os[k]), quote |-> EntryCapacity(os[k])]
    ELSE [kind |-> "part", base |-> DecDiv(left, EntryPrice(os[k])), quote |-> left]

RECURSIVE DueBase(_, _, _)
DueBase(os, k, t) ==
    IF k = 0 THEN Zero ELSE DecAdd(DueBase(os, k - 1, t), DueOf(os, k, t).base)

RECURSIVE DueQuote(_, _, _)
DueQuote(os, k, t) ==
    IF k = 0 THEN Zero ELSE DecAdd(DueQuote(os, k - 1, t), DueOf(os, k, t).quote)

\* the orders list without its invalid levels
RECURSIVE WithoutInvalid(_)
WithoutInvalid(os) ==
    IF Len(os) = 0 THEN <<>>
    ELSE IF EntryInvalid(Head(os)) THEN WithoutInvalid(Tail(os))
    ELSE <<Head(os)>> \o WithoutInvalid(Tail(os))

FillDone == pc = "done" /\ ret.status # "none"
FillReturned == FillDone /\ ret.status = "return"
Rounded(v) == quantize(v, precision)

-----------------------------------------------------------------------------
(* Properties of get_weighted_price.                                       *)

HasBadEntry(os) == \E i \in 1..Len(os) : ~EntryParses(os[i])

\* C1: a call with target_amount <= 0 ends by raising the ValueError of the
\* target guard, whatever the orders list holds; it never reaches the loop
\* and returns no result.
C1_NonPositiveTargetRejected ==
    (pc \in {"loop", "done"} /\ DecLe(target_amount, Zero)) =>
        /\ pc = "done"
        /\ IsInvalidArgument(ret)
        /\ order_levels = <<>>

\* C1 witness: a rejected call whose orders list holds an entry that would
\* not parse.
C1_Witness ==
    /\ pc = "done"
    /\ DecLe(target_amount, Zero)
    /\ HasBadEntry(orders)
    /\ IsInvalidArgument(ret)

InsufficientDepth ==
    /\ FillDone
    /\ DecGt(target_amount, Zero)
    /\ AllParse(orders)
    /\ DecLt(CapacityOf(orders, Len(orders)), target_amount)

\* C2 as stated: with insufficient depth the returned amount_filled is the
\* sum of the valid capacities and is below the target, volume_traded is the
\* sum of the valid quantities and weighted_price is their quotient.
C2_AsStated ==
    InsufficientDepth =>
        LET cap == CapacityOf(orders, Len(orders))
            qty == QuantityOf(orders, Len(orders))
        IN  /\ ret.status = "return"
            /\ ret.value.actual_amount_filled = cap
            /\ DecLt(ret.value.actual_amount_filled, target_amount)
            /\ ret.value.base_volume_traded = qty
            /\ DecGt(qty, Zero) => ret.value.weighted_price = DecDiv(cap, qty)

\* C2 amended: with insufficient depth the call returns without error, and
\* amount_filled, volume_traded and weighted_price are the sum of the valid
\* capacities, the sum of the valid quantities and their quotient, each
\* rounded half-up to the analyzer's precision; amount_filled is then at
\* most the target rounded the same way.
C2_InsufficientDepth ==
    InsufficientDepth =>
        LET cap == CapacityOf(orders, Len(orders))
            qty == QuantityOf(orders, Len(orders))
        IN  /\ ret.status = "return"
            /\ ret.value.actual_amount_filled = Rounded(cap)
            /\ DecLe(ret.value.actual_amount_filled, Rounded(target_amount))
            /\ ret.value.base_volume_traded = Rounded(qty)
            /\ ret.value.weighted_price =
                   IF DecGt(qty, Zero) THEN Rounded(DecDiv(cap, qty)) ELSE Zero

\* C2 witness: levels [(100, 1)], target 150 gives 100, 1, 100.
C2_Witness ==
    /\ FillReturned
    /\ orders = << <<"100", "1">> >>
    /\ target_amount = DecInt(150)
    /\ ret.value.actual_amount_filled = DecInt(100)
    /\ ret.value.base_volume_traded = DecInt(1)
    /\ ret.value.weighted_price = DecInt(100)

SufficientDepth ==
    /\ pc \in {"loop", "done"}
    /\ DecGt(target_amount, Zero)
    /\ Len(orders) > 0
    /\ AllParse(orders)
    /\ DecGe(CapacityOf(orders, Len(orders)), target_amount)

\* C3 as stated: with sufficient depth the returned amount_filled equals the
\* target.
C3_AsStated ==
    SufficientDepth /\ pc = "done" =>
        /\ ret.status = "return"
        /\ ret.value.actual_amount_filled = target_amount

\* C3 amended: with sufficient depth the fill spends exactly the target and
\* never more: after every iteration the totals are the sums of what the
\* levels walked so far are due (a valid level before the stopping level
\* whole, the stopping level remaining / price, nothing after it), at most
\* one level is consumed partially, and the returned amount_filled is the
\* target rounded half-up to the analyzer's precision.
C3_SufficientDepth ==
    SufficientDepth =>
        /\ idx \in 1..(Len(orders) + 1)
        /\ total_base_traded = DueBase(orders, idx - 1, target_amount)
        /\ total_quote_spent = DueQuote(orders, idx - 1, target_amount)
        /\ remaining_quote = DecSub(target_amount, total_quote_spent)
        /\ DecLe(total_quote_spent, target_amount)
        /\ pc = "done" =>
            /\ ret.status = "return"
            /\ total_quote_spent = target_amount
            /\ ret.value.actual_amount_filled = Rounded(target_amount)
            /\ ret.value.base_volume_traded =
                   Rounded(DueBase(orders, Len(orders), target_amount))
            /\ Cardinality({k \in 1..Len(orders) :
                              DueOf(orders, k, target_amount).kind = "part"}) <= 1
            /\ \A k \in idx..Len(orders) :
                   DueOf(orders, k, target_amount).kind = "none"

\* C3 witness: a whole level, then a partly consumed one, then an untouched
\* one: [(3, 0.5), (100, 2), (100, 1)], target 150 spends 1.5 + 148.5.
C3_Witness ==
    /\ FillReturned
    /\ orders = << <<"3", "0.5">>, <<"100", "2">>, <<"100", "1">> >>
    /\ target_amount = DecInt(150)
    /\ idx = 3
    /\ total_base_traded = <<397, 200>>
    /\ ret.value.actual_amount_filled = DecInt(150)

\* C4 as stated: on the returned fields, weighted_price is
\* actual_amount_filled / base_volume_traded when base_volume_traded > 0,
\* and 0 otherwise.
C4_AsStated ==
    FillReturned =>
        ret.value.weighted_price =
            IF DecGt(ret.value.base_volume_traded, Zero)
            THEN DecDiv(ret.value.actual_amount_filled, ret.value.base_volume_traded)
            ELSE Zero

\* C4 amended: weighted_price is the unrounded notional spent divided by the
\* unrounded base traded, rounded half-up to the analyzer's precision, when
\* the unrounded base traded is positive, and 0 otherwise.
C4_WeightedPriceOfTotals ==
    FillReturned /\ AllParse(orders) =>
        LET quote == DueQuote(orders, Len(orders), target_amount)
            base  == DueBase(orders, Len(orders), target_amount)
        IN  ret.value.weighted_price =
                IF DecGt(base, Zero) THEN Rounded(DecDiv(quote, base)) ELSE Zero

\* C4 witness: [(3, 0.5)], target 1 at precision 2 returns 3.00, 1.00 and
\* 0.33, and 1.00 / 0.33 is not 3.00.
C4_Witness ==
    /\ FillReturned
    /\ orders = << <<"3", "0.5">> >>
    /\ target_amount = DecInt(1)
    /\ precision = 2
    /\ ret.value.weighted_price = DecInt(3)
    /\ ret.value.base_volume_traded = <<33, 100>>

\* C5: invalid levels are skipped.  An iteration over an invalid level
\* leaves remaining_quote and both totals as they are and the loop goes on
\* to the next level; and the outcome of a call with a positive target is
\* the outcome of the call on the list without its invalid levels.
C5_InvalidLevelsSkipped ==
    [][/\ (GetWeightedPriceIterate /\ EntryInvalid(orders[idx])) =>
             /\ UNCHANGED <<remaining_quote, total_base_traded, total_quote_spent>>
             /\ pc' = "loop"
             /\ idx' = idx + 1
       /\ (pc' = "done" /\ pc # "done" /\ ret'.status # "none"
                        /\ DecGt(target_amount, Zero)) =>
             ret' = get_weighted_price(precision, WithoutInvalid(orders),
                                       target_amount, TRUE)]_vars

\* C5 witness: a zero-quantity level between two valid levels, the second
\* of which is needed: [(100, 1), (100, 0), (100, 2)], target 150.
C5_Witness ==
    /\ FillReturned
    /\ orders = << <<"100", "1">>, <<"100", "0">>, <<"100", "2">> >>
    /\ target_amount = DecInt(150)
    /\ idx = 4
    /\ ret.value.actual_amount_filled = DecInt(150)
    /\ ret.value.base_volume_traded = <<3, 2>>

\* C6: with a positive target, an empty orders list and a list of invalid
\* levels only give the all-zero result and no error.
C6_NothingToFill ==
    (FillDone /\ DecGt(target_amount, Zero)
              /\ \A i \in 1..Len(orders) : EntryInvalid(orders[i])) =>
        ret = Return(EmptyResult)

\* C6 witness: a returned call on a non-empty list of invalid levels.
C6_Witness ==
    /\ FillReturned
    /\ DecGt(target_amount, Zero)
    /\ Len(orders) >= 2
    /\ \A i \in 1..Len(orders) : EntryInvalid(orders[i])
    /\ \E i \in 1..Len(orders) : DecLt(EntryPrice(orders[i]), Zero)

-----------------------------------------------------------------------------
(* Spread analyzer: OrderbookAnalyzer.calculate_spreads                    *)

\* A requested level is a Python number: [type |-> "int", v |-> <<n, 1>>]
\* or [type |-> "float", v |-> <<n, d>>] with d in {1, 2}, a float whose
\* fractional part is .0 or .5 (exact in binary, so that repr shows it).

\* str(level): repr of the number, "100" for the int 100, "2.5" and "100.0"
\* for floats
PyStr(level) ==
    LET n    == level.v[1]
        d    == level.v[2]
        sign == IF n < 0 THEN "-" ELSE ""
        ip   == Abs(n) \div d
    IN  IF level.type = "int" THEN ToString(n)
        ELSE sign \o ToString(ip) \o (IF Abs(n) % d = 0 THEN ".0" ELSE ".5")

\* f"{level:.0f}": the nearest integer, a tie going to the even neighbour
Format0f(level) ==
    LET n    == level.v[1]
        d    == level.v[2]
        sign == IF n < 0 THEN "-" ELSE ""
        ip   == Abs(n) \div d
        r    == IF Abs(n) % d = 0 THEN ip
                ELSE IF ip % 2 = 0 THEN ip ELSE ip + 1
    IN  sign \o ToString(r)

\* the key of a level's entry in the result mapping
LevelKey(level) == Format0f(level) \o "_QUOTE"

\* A variant of the metrics that takes the difference of the two prices
\* also when a side has no fill.
_calculate_spread_metrics_UnguardedSpread(self_precision, buy_result, sell_result, best_ask, best_bid, level) ==
    LET Make(absolute_spread, mid_price) ==
            [level_quote            |-> _round_decimal_default(self_precision, level),
             buy_price              |-> _round_decimal(buy_result.weighted_price, 2),
             sell_price             |-> _round_decimal(sell_result.weighted_price, 2),
             buy_filled_quote       |-> _round_decimal(buy_result.actual_amount_filled, 2),
             sell_filled_quote      |-> _round_decimal(sell_result.actual_amount_filled, 2),
             absolute_spread        |-> _round_decimal(absolute_spread, 2),
             relative_spread_pct    |->
                 IF DecGt(mid_price, Zero)
                 THEN _round_decimal(DecMul(DecDiv(absolute_spread, mid_price),
                                            DecInt(100)), 4)
                 ELSE Zero,
             market_impact_buy_pct  |->
                 IF DecGt(best_ask, Zero)
                 THEN _round_decimal(DecMul(DecDiv(DecSub(buy_result.weighted_price,
                                                          best_ask), best_ask),
                                            DecInt(100)), 4)
                 ELSE Zero,
             market_impact_sell_pct |->
                 IF DecGt(best_bid, Zero)
                 THEN _round_decimal(DecMul(DecDiv(DecSub(best_bid,
                                                          sell_result.weighted_price),
                                                   best_bid),
                                            DecInt(100)), 4)
                 ELSE Zero]
    IN  Make(DecSub(buy_result.weighted_price, sell_result.weighted_price),
             DecDiv(DecAdd(buy_result.weighted_price, sell_result.weighted_price),
                    DecInt(2)))

\* _calculate_spread_metrics(buy_result, sell_result, best_ask, best_bid, level)
_calculate_spread_metrics(self_precision, buy_result, sell_result, best_ask, best_bid, level) ==
    LET buy_price  == buy_result.weighted_price
        sell_price == sell_result.weighted_price
        absolute_spread ==
            IF DecGt(buy_price, Zero) /\ DecGt(sell_price, Zero)
            THEN DecSub(buy_price, sell_price) ELSE Zero
        mid_price == DecDiv(DecAdd(buy_price, sell_price), DecInt(2))
        relative_spread ==
            IF DecGt(mid_price, Zero)
            THEN DecMul(DecDiv(absolute_spread, mid_price), DecInt(100)) ELSE Zero
        market_impact_buy ==
            IF DecGt(best_ask, Zero)
            THEN DecMul(DecDiv(DecSub(buy_price, best_ask), best_ask), DecInt(100))
            ELSE Zero
        market_impact_sell ==
            IF DecGt(best_bid, Zero)
            THEN DecMul(DecDiv(DecSub(best_bid, sell_price), best_bid), DecInt(100))
            ELSE Zero
    IN  [level_quote            |-> _round_decimal_default(self_precision, level),
         buy_price              |-> _round_decimal(buy_price, 2),
         sell_price             |-> _round_decimal(sell_price, 2),
         buy_filled_quote       |-> _round_decimal(buy_result.actual_amount_filled, 2),
         sell_filled_quote      |-> _round_decimal(sell_result.actual_amount_filled, 2),
         absolute_spread        |-> _round_decimal(absolute_spread, 2),
         relative_spread_pct    |-> _round_decimal(relative_spread, 4),
         market_impact_buy_pct  |-> _round_decimal(market_impact_buy, 4),
         market_impact_sell_pct |-> _round_decimal(market_impact_sell, 4)]

\* market_orderbook.get('marketId', 'Unknown')
GetMarketId(d) == IF "marketId" \in DOMAIN d THEN d["marketId"] ELSE "Unknown"

\* A variant of the summary that divides by the mid price whatever it is.
_create_market_summary_Unguarded(d, best_bid, best_ask) ==
    [best_bid        |-> _round_decimal(best_bid, 2),
     best_ask        |-> _round_decimal(best_ask, 2),
     best_spread     |-> _round_decimal(DecSub(best_ask, best_bid), 2),
     best_spread_pct |->
         _round_decimal(DecMul(DecDiv(DecSub(best_ask, best_bid),
                                      DecDiv(DecAdd(best_ask, best_bid), DecInt(2))),
                               DecInt(100)), 4),
     market_id       |-> GetMarketId(d)]

\* A variant of the summary that subtracts the ask from the bid.
_create_market_summary_SwappedSpread(d, best_bid, best_ask) ==
    LET Make(best_spread, mid_price) ==
            [best_bid        |-> _round_decimal(best_bid, 2),
             best_ask        |-> _round_decimal(best_ask, 2),
             best_spread     |-> _round_decimal(best_spread, 2),
             best_spread_pct |->
                 IF DecGt(mid_price, Zero)
                 THEN _round_decimal(DecMul(DecDiv(best_spread, mid_price),
                                            DecInt(100)), 4)
                 ELSE Zero,
             market_id       |-> GetMarketId(d)]
    IN  Make(DecSub(best_bid, best_ask),
             DecDiv(DecAdd(best_ask, best_bid), DecInt(2)))

\* _create_market_summary(market_orderbook, best_bid, best_ask)
_create_market_summary(d, best_bid, best_ask) ==
    LET best_spread == DecSub(best_ask, best_bid)
        mid_price   == DecDiv(DecAdd(best_ask, best_bid), DecInt(2))
        best_spread_pct ==
            IF DecGt(mid_price, Zero)
            THEN DecMul(DecDiv(best_spread, mid_price), DecInt(100)) ELSE Zero
    IN  [best_bid        |-> _round_decimal(best_bid, 2),
         best_ask        |-> _round_decimal(best_ask, 2),
         best_spread     |-> _round_decimal(best_spread, 2),
         best_spread_pct |-> _round_decimal(best_spread_pct, 4),
         market_id       |-> GetMarketId(d)]

\* A variant of the assignment that keeps the value of a present key.
DictSet_KeepsFirst(d, key, value) == d @@ (key :> value)

\* results[key] = value on a dict: a new key is added, a present key is
\* overwritten
DictSet(d, key, value) == (key :> value) @@ d

EmptyDict == [k \in {} |-> <<>>]

\* A variant of the top of the book that passes over first entries whose
\* quantity is "0".
RECURSIVE TopOfBook_SkipsZeroQuantity(_)
TopOfBook_SkipsZeroQuantity(side) ==
    IF Len(side) > 1 /\ Len(side[1]) = 2 /\ side[1][2] = "0"
    THEN TopOfBook_SkipsZeroQuantity(Tail(side))
    ELSE IF Len(side[1]) = 0 THEN Raise("IndexError", "list index out of range")
    ELSE Decimal(side[1][1])

\* A variant of the top of book that reads the price of the last entry.
TopOfBook_LastEntry(side) ==
    IF Len(side[Len(side)]) = 0 THEN Raise("IndexError", "list index out of range")
    ELSE Decimal(side[Len(side)][1])

\* Decimal(side[0][0]): the price of the first entry of a side; an entry
\* without elements raises IndexError
TopOfBook(side) ==
    IF Len(side[1]) = 0 THEN Raise("IndexError", "list index out of range")
    ELSE Decimal(side[1][1])

\* the try / except (ValueError, IndexError) around the two top-of-book
\* conversions, asks first: a caught exception is re-raised as
\* ValueError("Invalid orderbook format: ..."), any other passes
BestPrices(asks, bids) ==
    LET Except(e) ==
            IF e.exc \in {"ValueError", "IndexError"}
            THEN Raise("ValueError", "Invalid orderbook format")
            ELSE e
        Both(a, b) ==
            IF a.status = "raise" THEN Except(a)
            ELSE IF b.status = "raise" THEN Except(b)
            ELSE Return([best_ask |-> a.value, best_bid |-> b.value])
    IN  Both(TopOfBook(asks), TopOfBook(bids))

\* A variant of the loop that passes over a level get_weighted_price
\* rejects and goes on with the next.
RECURSIVE SpreadsLoop_SkipsRejected(_, _, _, _, _, _, _)
SpreadsLoop_SkipsRejected(self_precision, asks, bids, best, lvls, i, res) ==
    IF i > Len(lvls) THEN Return(res)
    ELSE
    LET Store(spread_analysis) ==
            IF spread_analysis.status = "raise" THEN spread_analysis
            ELSE SpreadsLoop_SkipsRejected(self_precision, asks, bids, best, lvls,
                     i + 1, DictSet(res, LevelKey(lvls[i]), spread_analysis.value))
        Record(level_decimal, buy_result, sell_result) ==
            IF buy_result = TargetError
            THEN SpreadsLoop_SkipsRejected(self_precision, asks, bids, best, lvls,
                                           i + 1, res)
            ELSE IF buy_result.status = "raise" THEN buy_result
            ELSE IF sell_result.status = "raise" THEN sell_result
            ELSE Store(Outcome(_calculate_spread_metrics(self_precision,
                                   buy_result.value, sell_result.value,
                                   best.best_ask, best.best_bid, level_decimal)))
        AtLevel(level_decimal) ==
            Record(level_decimal,
                   get_weighted_price(self_precision, asks, level_decimal, TRUE),
                   get_weighted_price(self_precision, bids, level_decimal, FALSE))
    IN  AtLevel(Decimal(PyStr(lvls[i])).value)

\* "for level in levels" from position i on, res being the results so far;
\* an exception of get_weighted_price leaves the loop and the function
RECURSIVE SpreadsLoop(_, _, _, _, _, _, _)
SpreadsLoop(self_precision, asks, bids, best, lvls, i, res) ==
    IF i > Len(lvls) THEN Return(res)
    ELSE
    LET Store(spread_analysis) ==
            IF spread_analysis.status = "raise" THEN spread_analysis
            ELSE SpreadsLoop(self_precision, asks, bids, best, lvls, i + 1,
                     DictSet(res, LevelKey(lvls[i]), spread_analysis.value))
        Record(level_decimal, buy_result, sell_result) ==
            IF buy_result.status = "raise" THEN buy_result
            ELSE IF sell_result.status = "raise" THEN sell_result
            ELSE Store(Outcome(_calculate_spread_metrics(self_precision,
                                   buy_result.value, sell_result.value,
                                   best.best_ask, best.best_bid, level_decimal)))
        AtLevel(level_decimal) ==
            Record(level_decimal,
                   get_weighted_price(self_precision, asks, level_decimal, TRUE),
                   get_weighted_price(self_precision, bids, level_decimal, FALSE))
    IN  AtLevel(Decimal(PyStr(lvls[i])).value)

\* An orderbook argument is [type |-> "dict", d |-> a function on its
\* keys], or a value of another type.

\* A variant of the input validation without the test of the keys, where
\* market_orderbook['asks'] raises KeyError.
CheckOrderbook_NoKeyTest(ob) ==
    IF ob.type # "dict"
    THEN Raise("ValueError", "market_orderbook must be a dictionary")
    ELSE IF "asks" \notin DOMAIN ob.d THEN Raise("KeyError", "asks")
    ELSE IF "bids" \notin DOMAIN ob.d THEN Raise("KeyError", "bids")
    ELSE IF Len(ob.d["asks"]) = 0 \/ Len(ob.d["bids"]) = 0
    THEN Raise("ValueError", "Orderbook must have non-empty asks and bids")
    ELSE Return(ob.d)

\* the input validation of calculate_spreads: the isinstance test, the test
\* of the keys and the test that both sides are non-empty
CheckOrderbook(ob) ==
    IF ob.type # "dict"
    THEN Raise("ValueError", "market_orderbook must be a dictionary")
    ELSE IF "asks" \notin DOMAIN ob.d \/ "bids" \notin DOMAIN ob.d
    THEN Raise("ValueError", "Orderbook must contain 'asks' and 'bids' keys")
    ELSE IF Len(ob.d["asks"]) = 0 \/ Len(ob.d["bids"]) = 0
    THEN Raise("ValueError", "Orderbook must have non-empty asks and bids")
    ELSE Return(ob.d)

\* calculate_spreads(market_orderbook, levels)
calculate_spreads(self_precision, ob, lvls) ==
    LET Add(results_, summary) ==
            IF summary.status = "raise" THEN summary
            ELSE Return(DictSet(results_, "market_summary", summary.value))
        Summarize(best, looped) ==
            IF looped.status = "raise" THEN looped
            ELSE Add(looped.value,
                     Outcome(_create_market_summary(ob.d, best.best_bid,
                                                    best.best_ask)))
        Analyze(asks, bids, best) ==
            IF best.status = "raise" THEN best
            ELSE Summarize(best.value,
                     SpreadsLoop(self_precision, asks, bids, best.value, lvls, 1,
                                 EmptyDict))
        Validated(checked) ==
            IF checked.status = "raise" THEN checked
            ELSE Analyze(ob.d["asks"], ob.d["bids"],
                         BestPrices(ob.d["asks"], ob.d["bids"]))
    IN  Validated(CheckOrderbook(ob))

-----------------------------------------------------------------------------
(* Inputs of calculate_spreads.                                            *)

AskEntries ==
    { <<"100", "1">>,       \* valid level
      <<"101", "2">>,       \* valid level
      <<"100", "0">>,       \* parses, quantity not positive
      <<"0", "1">>,         \* parses, price zero
      <<"abc", "1">>,       \* price is no decimal number
      <<>> }                \* entry without a price element

AskSides == SeqsUpTo(AskEntries, MaxBookDepth)

BidSides ==
    { <<>>,
      << <<"99", "1">> >>,
      << <<"100", "1">> >>,                     \* best bid = best ask
      << <<"99.996", "1">> >>,                  \* 0.004 below the best ask
      << <<"99", "1">>, <<"98", "2">> >>,
      << <<"-1", "1">> >>,                      \* price negative
      << <<"0", "1">> >>,                       \* price zero
      << <<"99", "abc">> >>,                    \* quantity is no decimal number
      << <<"abc", "1">> >>,
      << <<>> >> }

PyInt(n) == [type |-> "int", v |-> <<n, 1>>]
PyFloat(n, d) == [type |-> "float", v |-> <<n, d>>]

\* requested levels: 150, 1.5, 2.5, 0 and -1
LevelInputs == {PyInt(150), PyFloat(3, 2), PyFloat(5, 2), PyInt(0), PyInt(-1)}

RequestedLevels == SeqsUpTo(LevelInputs, MaxRequested)

Dict(d) == [type |-> "dict", d |-> d]
NotADict == [type |-> "list", d |-> <<>>]

Orderbooks ==
    {Dict([marketId |-> "ETH-AUD", asks |-> a, bids |-> b]) : a \in AskSides, b \in BidSides}
    \cup {Dict([asks |-> a, bids |-> << <<"99", "1">> >>]) : a \in AskSides}
    \cup {Dict([marketId |-> "ETH-AUD", bids |-> b]) : b \in BidSides}
    \cup {Dict([marketId |-> "ETH-AUD", asks |-> a]) : a \in {<<>>, << <<"100", "1">> >>}}
    \cup {Dict([marketId |-> "ETH-AUD"]), NotADict}

\* the precisions of the analyzers that calculate_spreads is called on
SpreadPrecisions == {0, MaxPrecision}

-----------------------------------------------------------------------------
(* calculate_spreads as one step.                                          *)

SpreadsInit ==
    /\ configured \in {<<p>> : p \in SpreadPrecisions}
    /\ precision = OrderbookAnalyzer(configured)
    /\ market_orderbook \in Orderbooks
    /\ levels \in RequestedLevels
    /\ pc = "spreads_call"
    /\ results = NoOutcome
    /\ orders = <<>>
    /\ target_amount = Zero
    /\ order_levels = <<>>
    /\ idx = 0
    /\ remaining_quote = Zero
    /\ total_base_traded = Zero
    /\ total_quote_spent = Zero
    /\ ret = NoOutcome
    /\ bars = <<>>
    /\ aggregated = NoOutcome
    /\ calls = <<>>
    /\ table = {}
    /\ aggregation_type = ""
    /\ market_idx = 0
    /\ processed_items = 0
    /\ rollup = NoOutcome
    /\ stored = NoOutcome

CalculateSpreads ==
    /\ pc = "spreads_call"
    /\ results' = calculate_spreads(precision, market_orderbook, levels)
    /\ pc' = "spreads_done"
    /\ UNCHANGED <<configured, precision, market_orderbook, levels>>
    /\ UNCHANGED fillVars
    /\ UNCHANGED barVars
    /\ UNCHANGED callVars
    /\ UNCHANGED shellVars

SpreadsNext == CalculateSpreads

SpecSpreads == SpreadsInit /\ [][SpreadsNext]_vars

-----------------------------------------------------------------------------
(* scraper_handler.aggregate_bars.                                         *)
(*                                                                         *)
(* A bar is an item of the table: a mapping that may have a 'data' entry.  *)
(* The value of 'data' is a list of Decimals or None; store_aggregated_bar *)
(* writes None when it is handed the no-data sentinel.  A float is         *)
(* carried as the decimal number its repr prints, which for a Decimal of   *)
(* at most 15 significant digits is the Decimal itself; the arithmetic on  *)
(* floats is exact for the binary fractions the bars here are made of.     *)

PyNone == [type |-> "NoneType"]
PyList(items) == [type |-> "list", items |-> items]

\* bar.get('data', [])
GetData(bar) == IF "data" \in DOMAIN bar THEN bar["data"] ELSE PyList(<<>>)

\* the fields of a payload that the loop reads
RequiredFields == 9

RECURSIVE FracDigits(_, _)
\* the digits of r / d after the point, 0 <= r < d, d a divisor of a power of 10
FracDigits(r, d) ==
    IF r = 0 THEN ""
    ELSE ToString((r * 10) \div d) \o FracDigits((r * 10) % d, d)

\* str(x) of a float x: sign, integer part, point and the digits after it,
\* ".0" for a whole number
StrOfFloat(x) ==
    LET sign == IF x[1] < 0 THEN "-" ELSE ""
        frac == FracDigits(Abs(x[1]) % x[2], x[2])
    IN  sign \o ToString(Abs(x[1]) \div x[2]) \o "."
             \o (IF frac = "" THEN "0" ELSE frac)

\* Decimal(str(x)) of a float x
DecimalOfFloat(x) == Decimal(StrOfFloat(x)).value

RECURSIVE Insert(_, _)
\* x put into the ascending sequence s
Insert(s, x) ==
    IF Len(s) = 0 THEN <<x>>
    ELSE IF DecLe(x, Head(s)) THEN <<x>> \o s
    ELSE <<Head(s)>> \o Insert(Tail(s), x)

RECURSIVE sorted(_)
\* sorted(data), list.sort(): ascending
sorted(data) ==
    IF Len(data) = 0 THEN <<>> ELSE Insert(sorted(Tail(data)), Head(data))

\* A variant of max that returns the last value.
max_Last(data) == data[Len(data)]

RECURSIVE max(_)
max(data) ==
    IF Len(data) = 1 THEN data[1]
    ELSE LET Larger(a, b) == IF DecGt(b, a) THEN b ELSE a
         IN  Larger(data[1], max(Tail(data)))

RECURSIVE min(_)
min(data) ==
    IF Len(data) = 1 THEN data[1]
    ELSE LET Smaller(a, b) == IF DecLt(b, a) THEN b ELSE a
         IN  Smaller(data[1], min(Tail(data)))

\* A variant of the median that takes the lower of two middle values.
median_Lower(data) ==
    LET Middle(s, n) == IF n % 2 = 1 THEN s[n \div 2 + 1] ELSE s[n \div 2]
    IN  Middle(sorted(data), Len(data))

\* statistics.median(data): the middle value, or the mean of the two middle
\* values of an even number of values
median(data) ==
    LET Middle(s, n) ==
            IF n % 2 = 1 THEN s[n \div 2 + 1]
            ELSE DecDiv(DecAdd(s[n \div 2], s[n \div 2 + 1]), DecInt(2))
    IN  Middle(sorted(data), Len(data))

\* statistics.quantiles(data, n=n), method 'exclusive', of at least two
\* values: the n - 1 cut points, each interpolated between two neighbours
quantiles(data, n) ==
    LET Cut(s, ld, i) ==
            LET Clamp(j) == IF j < 1 THEN 1 ELSE IF j > ld - 1 THEN ld - 1 ELSE j
                At(j) ==
                    DecDiv(DecAdd(DecMul(s[j], DecInt(n - (i * (ld + 1) - j * n))),
                                  DecMul(s[j + 1], DecInt(i * (ld + 1) - j * n))),
                           DecInt(n))
            IN  At(Clamp((i * (ld + 1)) \div n))
        Cuts(s) == [i \in 1..(n - 1) |-> Cut(s, Len(s), i)]
    IN  Cuts(sorted(data))

NoColumns == [opens |-> <<>>, highs |-> <<>>, lows |-> <<>>, closes |-> <<>>,
              spreads |-> <<>>]

\* A variant of the loop that pools the three quartiles of a bar only.
RECURSIVE Extract_QuartilesOnly(_, _, _)
Extract_QuartilesOnly(bs, i, acc) ==
    IF i > Len(bs) THEN Return(acc)
    ELSE
    LET Body(data) ==
            IF data.type = "NoneType"
            THEN Raise("TypeError", "object of type 'NoneType' has no len()")
            ELSE IF Len(data.items) >= RequiredFields
            THEN Extract_QuartilesOnly(bs, i + 1,
                     [opens   |-> Append(acc.opens, data.items[1]),
                      highs   |-> Append(acc.highs, data.items[2]),
                      lows    |-> Append(acc.lows, data.items[3]),
                      closes  |-> Append(acc.closes, data.items[4]),
                      spreads |-> acc.spreads \o SubSeq(data.items, 6, 8)])
            ELSE Extract_QuartilesOnly(bs, i + 1, acc)
    IN  Body(GetData(bs[i]))

\* "for bar in bars" from position i on, acc being the five lists so far;
\* len(None) raises TypeError and leaves the function
RECURSIVE Extract(_, _, _)
Extract(bs, i, acc) ==
    IF i > Len(bs) THEN Return(acc)
    ELSE
    LET Body(data) ==
            IF data.type = "NoneType"
            THEN Raise("TypeError", "object of type 'NoneType' has no len()")
            ELSE IF Len(data.items) >= RequiredFields
            THEN Extract(bs, i + 1,
                     [opens   |-> Append(acc.opens, data.items[1]),
                      highs   |-> Append(acc.highs, data.items[2]),
                      lows    |-> Append(acc.lows, data.items[3]),
                      closes  |-> Append(acc.closes, data.items[4]),
                      spreads |-> acc.spreads \o SubSeq(data.items, 5, 9)])
            ELSE Extract(bs, i + 1, acc)
    IN  Body(GetData(bs[i]))

\* A variant of the aggregation that orders the bars by value: the lowest
\* open and the highest close.
Aggregate_Ordered(acc) ==
    IF Len(acc.opens) = 0 THEN Return(PyNone)
    ELSE
    LET Bar(spreads, q) ==
            Return(PyList(
                << DecimalOfFloat(min(acc.opens)),
                   DecimalOfFloat(max(acc.highs)),
                   DecimalOfFloat(min(acc.lows)),
                   DecimalOfFloat(max(acc.closes)),
                   DecimalOfFloat(min(spreads)),
                   DecimalOfFloat(IF Len(spreads) > 1 THEN q[1] ELSE spreads[1]),
                   DecimalOfFloat(median(spreads)),
                   DecimalOfFloat(IF Len(spreads) > 1 THEN q[3] ELSE spreads[1]),
                   DecimalOfFloat(max(spreads)) >>))
        Sorted(spreads) == Bar(spreads, quantiles(spreads, 4))
    IN  Sorted(sorted(acc.spreads))

\* A variant of the aggregation whose high is the median of the highs.
Aggregate_MedianHigh(acc) ==
    IF Len(acc.opens) = 0 THEN Return(PyNone)
    ELSE
    LET Bar(spreads, q) ==
            Return(PyList(
                << DecimalOfFloat(acc.opens[1]),
                   DecimalOfFloat(median(acc.highs)),
                   DecimalOfFloat(min(acc.lows)),
                   DecimalOfFloat(acc.closes[Len(acc.closes)]),
                   DecimalOfFloat(min(spreads)),
                   DecimalOfFloat(IF Len(spreads) > 1 THEN q[1] ELSE spreads[1]),
                   DecimalOfFloat(median(spreads)),
                   DecimalOfFloat(IF Len(spreads) > 1 THEN q[3] ELSE spreads[1]),
                   DecimalOfFloat(max(spreads)) >>))
        Sorted(spreads) == Bar(spreads, quantiles(spreads, 4))
    IN  Sorted(sorted(acc.spreads))

\* the statements after the loop: the sentinel without opens, else the
\* aggregate of the five lists as nine Decimals
Aggregate(acc) ==
    IF Len(acc.opens) = 0 THEN Return(PyNone)
    ELSE
    LET Bar(spreads, q) ==
            Return(PyList(
                << DecimalOfFloat(acc.opens[1]),
                   DecimalOfFloat(max(acc.highs)),
                   DecimalOfFloat(min(acc.lows)),
                   DecimalOfFloat(acc.closes[Len(acc.closes)]),
                   DecimalOfFloat(min(spreads)),
                   DecimalOfFloat(IF Len(spreads) > 1 THEN q[1] ELSE spreads[1]),
                   DecimalOfFloat(median(spreads)),
                   DecimalOfFloat(IF Len(spreads) > 1 THEN q[3] ELSE spreads[1]),
                   DecimalOfFloat(max(spreads)) >>))
        Sorted(spreads) == Bar(spreads, quantiles(spreads, 4))
    IN  Sorted(sorted(acc.spreads))

\* aggregate_bars(bars)
aggregate_bars(bs) ==
    IF Len(bs) = 0 THEN Return(PyNone)
    ELSE LET After(extracted) ==
                 IF extracted.status = "raise" THEN extracted
                 ELSE Aggregate(extracted.value)
         IN  After(Extract(bs, 1, NoColumns))

-----------------------------------------------------------------------------
(* Inputs of aggregate_bars.                                               *)

MaxBars == 3

Payload(ns) == PyList([i \in 1..Len(ns) |-> DecInt(ns[i])])
Item(data) == [marketid |-> "ETH-AUD_1m", data |-> data]

B1 == Item(Payload(<<10, 12, 9, 11, 1, 2, 3, 4, 5>>))
B2 == Item(Payload(<<11, 13, 10, 12, 2, 3, 4, 5, 6>>))

BarItems ==
    { B1, B2,
      \* a bar of halves and quarters whose spread values are out of order
      Item(PyList(<< <<19, 2>>, <<27, 2>>, <<33, 4>>, <<21, 2>>,
                     <<7, 2>>, <<1, 4>>, DecInt(2), <<1, 2>>, DecInt(1) >>)),
      \* a payload of ten fields
      Item(Payload(<<12, 12, 8, 9, 3, 3, 3, 3, 3, 0>>)),
      \* payloads of eight fields and of none
      Item(Payload(<<14, 15, 7, 8, 1, 2, 3, 4>>)),
      Item(PyList(<<>>)),
      \* an item without 'data', an item whose 'data' is None
      [marketid |-> "ETH-AUD_1m"],
      Item(PyNone) }

BarSequences == SeqsUpTo(BarItems, MaxBars)

-----------------------------------------------------------------------------
(* aggregate_bars as one step.                                             *)

AggregateInit ==
    /\ bars \in BarSequences
    /\ aggregated = NoOutcome
    /\ calls = <<>>
    /\ table = {}
    /\ aggregation_type = ""
    /\ market_idx = 0
    /\ processed_items = 0
    /\ rollup = NoOutcome
    /\ stored = NoOutcome
    /\ pc = "aggregate_call"
    /\ configured = <<>>
    /\ precision = OrderbookAnalyzer(configured)
    /\ orders = <<>>
    /\ target_amount = Zero
    /\ order_levels = <<>>
    /\ idx = 0
    /\ remaining_quote = Zero
    /\ total_base_traded = Zero
    /\ total_quote_spent = Zero
    /\ ret = NoOutcome
    /\ market_orderbook = NoOrderbook
    /\ levels = <<>>
    /\ results = NoOutcome

AggregateBars ==
    /\ pc = "aggregate_call"
    /\ aggregated' = aggregate_bars(bars)
    /\ pc' = "aggregate_done"
    /\ UNCHANGED <<configured, precision, bars>>
    /\ UNCHANGED fillVars
    /\ UNCHANGED spreadVars
    /\ UNCHANGED callVars
    /\ UNCHANGED shellVars

AggregateNext == AggregateBars

SpecAggregate == AggregateInit /\ [][AggregateNext]_vars

-----------------------------------------------------------------------------
(* Successive calls of get_weighted_price on one analyzer.                 *)

\* What a call analyzer.get_weighted_price(orders, target_amount,
\* is_buying) leaves behind: the analyzer's attribute and the list passed
\* as orders, neither of which the method assigns to, and the outcome.

\* A variant of the call that drops the precision of the analyzer to 0 and
\* removes the first entry of the list it was handed.
Invoke_Consuming(self_precision, os, target, is_buying) ==
    [self_precision |-> 0,
     orders         |-> IF Len(os) = 0 THEN os ELSE Tail(os),
     outcome        |-> get_weighted_price(self_precision, os, target, is_buying)]

Invoke(self_precision, os, target, is_buying) ==
    [self_precision |-> self_precision,
     orders         |-> os,
     outcome        |-> get_weighted_price(self_precision, os, target, is_buying)]

MaxCalls == 3

\* the lists and targets of the calls: small values, two valid levels out
\* of price order, an invalid level, an entry that does not parse
CallOrders ==
    { << <<"4", "0.5">>, <<"3", "0.5">> >>,
      << <<"3", "0.5">>, <<"-1", "1">>, <<"4", "0.5">> >>,
      << <<"3", "0.5">>, <<"abc", "1">> >> }
CallTargets == {DecInt(1), DecInt(3)}

CallsInit ==
    /\ configured \in ConstructorArgs
    /\ precision = OrderbookAnalyzer(configured)
    /\ calls = <<>>
    /\ table = {}
    /\ aggregation_type = ""
    /\ market_idx = 0
    /\ processed_items = 0
    /\ rollup = NoOutcome
    /\ stored = NoOutcome
    /\ pc = "idle"
    /\ orders = <<>>
    /\ target_amount = Zero
    /\ order_levels = <<>>
    /\ idx = 0
    /\ remaining_quote = Zero
    /\ total_base_traded = Zero
    /\ total_quote_spent = Zero
    /\ ret = NoOutcome
    /\ market_orderbook = NoOrderbook
    /\ levels = <<>>
    /\ results = NoOutcome
    /\ bars = <<>>
    /\ aggregated = NoOutcome

\* one call, from its arguments to its outcome
CallGetWeightedPrice ==
    /\ pc = "idle"
    /\ Len(calls) < MaxCalls
    /\ \E os \in CallOrders, t \in CallTargets, b \in BOOLEAN :
         \E post \in {Invoke(precision, os, t, b)} :
            /\ precision' = post.self_precision
            /\ orders' = post.orders
            /\ target_amount' = t
            /\ ret' = post.outcome
            /\ calls' = Append(calls, [orders       |-> os,
                                       target       |-> t,
                                       is_buying    |-> b,
                                       orders_after |-> post.orders,
                                       outcome      |-> post.outcome])
    /\ UNCHANGED <<configured, pc, order_levels, idx, remaining_quote,
                   total_base_traded, total_quote_spent>>
    /\ UNCHANGED spreadVars
    /\ UNCHANGED barVars
    /\ UNCHANGED shellVars

CallsNext == CallGetWeightedPrice

SpecCalls == CallsInit /\ [][CallsNext]_vars

-----------------------------------------------------------------------------
(* scraper_handler: the table and the two roll-ups.                        *)
(*                                                                         *)
(* The table is the set of its items, one per key (marketid, timestamp).   *)
(* Timestamps are counted in sampling intervals from the start of the      *)
(* window that is rolled up.                                               *)

INTERESTING_MARKETS ==
    << "BTC-AUD", "XRP-AUD", "SOL-AUD", "ETH-AUD", "SUI-AUD", "USDT-AUD",
       "USDC-AUD", "LTC-AUD", "XLM-AUD", "AVAX-AUD" >>

\* the markets the model rolls up: the first MaxMarkets of the list
MaxMarkets == 2
Markets == SubSeq(INTERESTING_MARKETS, 1, MaxMarkets)

\* previous_hour / previous_day and current_hour / current_day
WindowStart == 0
WindowEnd == 3

\* table.put_item(Item=item): the item takes the place of the item of its key
put_item(tb, item) ==
    {i \in tb : i.marketid # item.marketid \/ i.timestamp # item.timestamp}
        \cup {item}

RECURSIVE ItemsFrom(_, _, _, _)
\* the items of market_id with a timestamp from t to end_time, by timestamp
ItemsFrom(tb, market_id, t, end_time) ==
    IF t > end_time THEN <<>>
    ELSE LET here == {i \in tb : i.marketid = market_id /\ i.timestamp = t}
         IN  (IF here = {} THEN <<>> ELSE <<CHOOSE i \in here : TRUE>>)
                 \o ItemsFrom(tb, market_id, t + 1, end_time)

\* query_time_range(market_id, start_time, end_time): the items of the key
\* range, or [] when the query raised
query_time_range(tb, market_id, start_time, end_time, query_raises) ==
    IF query_raises THEN <<>> ELSE ItemsFrom(tb, market_id, start_time, end_time)

\* store_aggregated_bar(market_id, timestamp, bar_data): the table after
\* the call; an exception of put_item is printed and dropped
store_aggregated_bar(tb, market_id, timestamp, bar_data, put_raises) ==
    IF put_raises THEN tb
    ELSE put_item(tb, [marketid |-> market_id, timestamp |-> timestamp,
                       data |-> bar_data])

\* market_id.replace('_1m', '') of an id that ends in its only '_1m'
Replace1m(market_id) ==
    IF Len(market_id) >= 3 /\ SubSeq(market_id, Len(market_id) - 2, Len(market_id)) = "_1m"
    THEN SubSeq(market_id, 1, Len(market_id) - 3)
    ELSE market_id

\* One pass of "for market_id in ..." of either roll-up: the items of
\* fine_id in the window are queried and, when there are any, aggregated,
\* stored under coarse_id at the start of the window and counted.  An
\* exception of aggregate_bars leaves the function.
RollupStep(fine_id, coarse_id) ==
    \E query_raises \in BOOLEAN, put_raises \in BOOLEAN :
      \E fine_data \in {query_time_range(table, fine_id, WindowStart, WindowEnd,
                                         query_raises)} :
        IF Len(fine_data) = 0
        THEN /\ market_idx' = market_idx + 1
             /\ UNCHANGED <<table, processed_items, rollup, pc>>
        ELSE \E bar \in {aggregate_bars(fine_data)} :
               IF bar.status = "raise"
               THEN /\ rollup' = bar
                    /\ pc' = "rollup_done"
                    /\ UNCHANGED <<table, processed_items, market_idx>>
               ELSE /\ table' = store_aggregated_bar(table, coarse_id, WindowStart,
                                                     bar.value, put_raises)
                    /\ processed_items' = processed_items + 1
                    /\ market_idx' = market_idx + 1
                    /\ UNCHANGED <<rollup, pc>>

\* aggregate_to_hourly, one market
AggregateToHourly ==
    /\ pc = "rollup_loop"
    /\ aggregation_type = "1h"
    /\ market_idx <= Len(Markets)
    /\ RollupStep(Markets[market_idx] \o "_1m",
                  Replace1m(Markets[market_idx] \o "_1m") \o "_1h")
    /\ UNCHANGED <<configured, precision, aggregation_type, stored>>
    /\ UNCHANGED fillVars
    /\ UNCHANGED spreadVars
    /\ UNCHANGED barVars
    /\ UNCHANGED callVars

\* aggregate_to_daily, one market
AggregateToDaily ==
    /\ pc = "rollup_loop"
    /\ aggregation_type = "1d"
    /\ market_idx <= Len(Markets)
    /\ RollupStep(Markets[market_idx] \o "_1h", Markets[market_idx] \o "_1d")
    /\ UNCHANGED <<configured, precision, aggregation_type, stored>>
    /\ UNCHANGED fillVars
    /\ UNCHANGED spreadVars
    /\ UNCHANGED barVars
    /\ UNCHANGED callVars

\* return processed_items of either roll-up
RollupReturn ==
    /\ pc = "rollup_loop"
    /\ market_idx > Len(Markets)
    /\ rollup' = Return(processed_items)
    /\ pc' = "rollup_done"
    /\ UNCHANGED <<configured, precision, table, aggregation_type, market_idx,
                   processed_items, stored>>
    /\ UNCHANGED fillVars
    /\ UNCHANGED spreadVars
    /\ UNCHANGED barVars
    /\ UNCHANGED callVars

\* the payloads of the items of a window: none, complete bars, a payload
\* of eight fields, None as stored for a window without data, no 'data'
Absent == [type |-> "absent"]
Windows ==
    { <<>>,
      <<B1["data"]>>,
      <<B1["data"], B2["data"]>>,
      <<Payload(<<14, 15, 7, 8, 1, 2, 3, 4>>)>>,
      <<Payload(<<14, 15, 7, 8, 1, 2, 3, 4>>), B1["data"]>>,
      <<Absent, PyList(<<>>)>>,
      <<PyNone>> }

\* the item of a market at a timestamp with the payload data
TableItem(market_id, timestamp, data) ==
    IF data.type = "absent"
    THEN [marketid |-> market_id, timestamp |-> timestamp]
    ELSE [marketid |-> market_id, timestamp |-> timestamp, data |-> data]

\* the suffix of the ids that a roll-up reads
FineSuffix(type) == IF type = "1h" THEN "_1m" ELSE "_1h"
\* the suffix of the ids that a roll-up writes
CoarseSuffix(type) == IF type = "1h" THEN "_1h" ELSE "_1d"

RollupInit ==
    /\ aggregation_type \in {"1h", "1d"}
    /\ \E w \in [1..Len(Markets) -> Windows] :
          table = UNION {{TableItem(Markets[m] \o FineSuffix(aggregation_type),
                                    t, w[m][t]) : t \in 1..Len(w[m])} :
                            m \in 1..Len(Markets)}
    /\ market_idx = 1
    /\ processed_items = 0
    /\ rollup = NoOutcome
    /\ stored = NoOutcome
    /\ pc = "rollup_loop"
    /\ configured = <<>>
    /\ precision = OrderbookAnalyzer(configured)
    /\ orders = <<>>
    /\ target_amount = Zero
    /\ order_levels = <<>>
    /\ idx = 0
    /\ remaining_quote = Zero
    /\ total_base_traded = Zero
    /\ total_quote_spent = Zero
    /\ ret = NoOutcome
    /\ market_orderbook = NoOrderbook
    /\ levels = <<>>
    /\ results = NoOutcome
    /\ bars = <<>>
    /\ aggregated = NoOutcome
    /\ calls = <<>>

RollupNext ==
    \/ AggregateToHourly
    \/ AggregateToDaily
    \/ RollupReturn

SpecRollup == RollupInit /\ [][RollupNext]_vars

-----------------------------------------------------------------------------
(* scraper_handler.scrape_handler: scrape_market and store_in_dynamodb.    *)
(*                                                                         *)
(* A market is scraped with the legacy calculate_spreads, an analyzer of   *)
(* the default precision, at INTERESTING_LEVELS; its result is stored as   *)
(* the 1-minute bar of the market.  The order book is the response of the  *)
(* exchange and the timestamp the reading of the clock, both chosen by the *)
(* environment.                                                            *)

INTERESTING_LEVELS == <<PyInt(100), PyInt(1000), PyInt(10000), PyInt(100000)>>

\* the module-level calculate_spreads(market_orderbook, levels)
legacy_calculate_spreads(ob, lvls) ==
    calculate_spreads(OrderbookAnalyzer(<<>>), ob, lvls)

\* data of store_in_dynamodb: open, high, low, close, min, q1, q2, q3, max
Bar(mid_price, spread) ==
    PyList(<<mid_price, mid_price, mid_price, mid_price,
             spread, spread, spread, spread, spread>>)

\* store_in_dynamodb(market_data) at the clock reading timestamp: the
\* table after the call and the outcome of the call; every exception is
\* logged and raised again
store_in_dynamodb(tb, market_data, timestamp, put_raises) ==
    LET volume == "10000_QUOTE"
        Failed(exc, msg) == [table |-> tb, outcome |-> Raise(exc, msg)]
        Put(item) ==
            IF put_raises THEN Failed("ClientError", "put_item")
            ELSE [table |-> put_item(tb, item), outcome |-> Return(PyNone)]
    IN  IF "market_summary" \notin DOMAIN market_data
        THEN Failed("AttributeError", "'NoneType' object has no attribute 'get'")
        ELSE IF volume \notin DOMAIN market_data
        THEN Failed("KeyError", volume)
        ELSE Put([marketid  |-> market_data["market_summary"].market_id \o "_1m",
                  timestamp |-> timestamp,
                  data      |->
                      Bar(DecDiv(DecSub(market_data[volume].buy_price,
                                        market_data["10000_QUOTE"].sell_price),
                                 DecInt(2)),
                          market_data[volume].absolute_spread)])

\* the responses of get_market_orderbook(market): sides of a deep and of a
\* shallow book, a side without a valid entry, an empty side; bids below,
\* at and above the best ask; with and without 'marketId'; an error object
ScrapedAsks ==
    { << <<"4", "100000">> >>,
      << <<"4", "1250">>, <<"16", "312.5">> >>,
      << <<"5", "100">> >>,
      << <<"4", "0">> >>,
      <<>> }

ScrapedBids ==
    { << <<"2", "100000">> >>,
      << <<"2.5", "3616">>, <<"2", "480">> >>,
      << <<"4", "100000">> >>,
      << <<"5", "100000">> >>,
      << <<"0", "1">> >> }

ScrapedOrderbooks(market) ==
    {Dict([marketId |-> market, asks |-> a, bids |-> b]) :
         a \in ScrapedAsks, b \in ScrapedBids}
    \cup {Dict([asks |-> a, bids |-> b]) : a \in ScrapedAsks, b \in ScrapedBids}
    \cup {Dict([message |-> "invalid market"])}

\* the readings of the clock
Clock == {WindowStart, WindowEnd}

\* store_in_dynamodb was not called
NotStored == [timestamp |-> WindowStart, outcome |-> NoOutcome]

\* One pass of "for market_id in INTERESTING_MARKETS" of scrape_handler:
\* the order book of the market is fetched and analyzed and, when that
\* returned, stored; an exception of either ends the pass.
ScrapeHandler ==
    /\ pc = "scrape_loop"
    /\ market_idx <= Len(Markets)
    /\ \E ob \in ScrapedOrderbooks(Markets[market_idx]) :
         \E market_data \in {legacy_calculate_spreads(ob, INTERESTING_LEVELS)} :
            /\ market_orderbook' = ob
            /\ results' = market_data
            /\ IF market_data.status = "raise"
               THEN /\ stored' = NotStored
                    /\ UNCHANGED table
               ELSE \E now \in Clock, put_raises \in BOOLEAN :
                     \E call \in {store_in_dynamodb(table, market_data.value, now,
                                                     put_raises)} :
                       /\ table' = call.table
                       /\ stored' = [timestamp |-> now, outcome |-> call.outcome]
    /\ market_idx' = market_idx + 1
    /\ UNCHANGED <<configured, precision, pc, levels, aggregation_type,
                   processed_items, rollup>>
    /\ UNCHANGED fillVars
    /\ UNCHANGED barVars
    /\ UNCHANGED callVars

\* return {'statusCode': 200, ...} of scrape_handler
ScrapeReturn ==
    /\ pc = "scrape_loop"
    /\ market_idx > Len(Markets)
    /\ pc' = "scrape_done"
    /\ UNCHANGED <<configured, precision>>
    /\ UNCHANGED fillVars
    /\ UNCHANGED spreadVars
    /\ UNCHANGED barVars
    /\ UNCHANGED callVars
    /\ UNCHANGED shellVars

ScrapeInit ==
    /\ pc = "scrape_loop"
    /\ market_idx = 1
    /\ table = {}
    /\ stored = NotStored
    /\ levels = INTERESTING_LEVELS
    /\ market_orderbook = NoOrderbook
    /\ results = NoOutcome
    /\ configured = <<>>
    /\ precision = OrderbookAnalyzer(configured)
    /\ aggregation_type = ""
    /\ processed_items = 0
    /\ rollup = NoOutcome
    /\ orders = <<>>
    /\ target_amount = Zero
    /\ order_levels = <<>>
    /\ idx = 0
    /\ remaining_quote = Zero
    /\ total_base_traded = Zero
    /\ total_quote_spent = Zero
    /\ ret = NoOutcome
    /\ bars = <<>>
    /\ aggregated = NoOutcome
    /\ calls = <<>>

ScrapeNext ==
    \/ ScrapeHandler
    \/ ScrapeReturn

SpecScrape == ScrapeInit /\ [][ScrapeNext]_vars

-----------------------------------------------------------------------------
(* The entry points of the analyzer and of the aggregator.                 *)

Init ==
    \/ FillInit \/ SpreadsInit \/ AggregateInit \/ CallsInit \/ RollupInit
    \/ ScrapeInit

Next ==
    \/ GetWeightedPriceEnter
    \/ GetWeightedPriceIterate
    \/ GetWeightedPriceReturn
    \/ CalculateSpreads
    \/ AggregateBars
    \/ CallGetWeightedPrice
    \/ AggregateToHourly
    \/ AggregateToDaily
    \/ RollupReturn
    \/ ScrapeHandler
    \/ ScrapeReturn

Spec == Init /\ [][Next]_vars

-----------------------------------------------------------------------------
(* Vocabulary of the properties of calculate_spreads.                      *)

SpreadsDone == pc = "spreads_done"

\* InvalidOrderbook is a ValueError with one of the messages of the input
\* validation or of the top-of-book conversion
IsInvalidOrderbook(o) ==
    /\ o.status = "raise"
    /\ o.exc = "ValueError"
    /\ o.msg \in {"market_orderbook must be a dictionary",
                  "Orderbook must contain 'asks' and 'bids' keys",
                  "Orderbook must have non-empty asks and bids",
                  "Invalid orderbook format"}

HasSides(ob) ==
    ob.type = "dict" /\ "asks" \in DOMAIN ob.d /\ "bids" \in DOMAIN ob.d
NonEmptySides(ob) ==
    HasSides(ob) /\ Len(ob.d["asks"]) > 0 /\ Len(ob.d["bids"]) > 0

\* the first entry of a side has no price element, or a price that is no
\* decimal number
TopMalformed(side) ==
    Len(side[1]) = 0 \/ Decimal(side[1][1]).status = "raise"
TopOfBookParses(ob) ==
    /\ NonEmptySides(ob)
    /\ ~TopMalformed(ob.d["asks"])
    /\ ~TopMalformed(ob.d["bids"])

\* a valid orderbook: both sides present, non-empty, every entry a pair of
\* decimal numbers
ValidOrderbook(ob) ==
    NonEmptySides(ob) /\ AllParse(ob.d["asks"]) /\ AllParse(ob.d["bids"])

AllPositive(lvls) == \A i \in 1..Len(lvls) : DecGt(lvls[i].v, Zero)

\* the last position of lvls whose level has the key of the level at i
LastWithKey(lvls, i) ==
    CHOOSE j \in i..Len(lvls) :
        /\ LevelKey(lvls[j]) = LevelKey(lvls[i])
        /\ \A k \in (j + 1)..Len(lvls) : LevelKey(lvls[k]) # LevelKey(lvls[i])

\* the SpreadMetrics of a level of value l: the fills of asks and of bids
\* for target l, measured against the top of the book
MetricsFor(ob, l) ==
    _calculate_spread_metrics(precision,
        get_weighted_price(precision, ob.d["asks"], l, TRUE).value,
        get_weighted_price(precision, ob.d["bids"], l, FALSE).value,
        EntryPrice(ob.d["asks"][1]), EntryPrice(ob.d["bids"][1]), l)

\* rec holds the rounded fills of asks and of bids for target l
SidesAreFillsFor(rec, ob, l) ==
    LET buy  == get_weighted_price(precision, ob.d["asks"], l, TRUE).value
        sell == get_weighted_price(precision, ob.d["bids"], l, FALSE).value
    IN  /\ rec.buy_price = quantize(buy.weighted_price, 2)
        /\ rec.buy_filled_quote = quantize(buy.actual_amount_filled, 2)
        /\ rec.sell_price = quantize(sell.weighted_price, 2)
        /\ rec.sell_filled_quote = quantize(sell.actual_amount_filled, 2)

-----------------------------------------------------------------------------
(* Properties of calculate_spreads.                                        *)

C8_InvalidOrderbookRejected ==
    (SpreadsDone /\ ~NonEmptySides(market_orderbook)) =>
        IsInvalidOrderbook(results)

\* C8 witness: an orderbook without 'asks' and no requested level.
C8_Witness ==
    /\ SpreadsDone
    /\ market_orderbook.type = "dict"
    /\ "asks" \notin DOMAIN market_orderbook.d
    /\ levels = <<>>
    /\ IsInvalidOrderbook(results)

\* C9 as stated: a malformed top-of-book entry of asks or of bids (no price
\* element, or a price that is no decimal number) makes calculate_spreads
\* fail with InvalidOrderbook, which is neither a ParseError nor an
\* InvalidArgument.
C9_AsStated ==
    (/\ SpreadsDone
     /\ NonEmptySides(market_orderbook)
     /\ \/ TopMalformed(market_orderbook.d["asks"])
        \/ TopMalformed(market_orderbook.d["bids"])) =>
        /\ IsInvalidOrderbook(results)
        /\ ~IsParseError(results)
        /\ ~IsInvalidArgument(results)

\* C10 as stated: for a valid orderbook and positive requested levels the
\* mapping has one entry per requested level plus "market_summary", and the
\* record under the key of a level L echoes L and holds the fills for L.
C10_AsStated ==
    (SpreadsDone /\ ValidOrderbook(market_orderbook) /\ AllPositive(levels)) =>
        /\ results.status = "return"
        /\ "market_summary" \in DOMAIN results.value
        /\ Cardinality(DOMAIN results.value) = Len(levels) + 1
        /\ \A i \in 1..Len(levels) :
               /\ LevelKey(levels[i]) \in DOMAIN results.value
               /\ results.value[LevelKey(levels[i])].level_quote = levels[i].v
               /\ SidesAreFillsFor(results.value[LevelKey(levels[i])],
                                   market_orderbook, levels[i].v)

\* C10 amended: for a valid orderbook and positive requested levels the keys
\* of the mapping are the keys of the requested levels plus
\* "market_summary", one entry per distinct key; the record under a key is
\* the SpreadMetrics of the last requested level that formats to the key:
\* its level_quote is that level rounded half-up to the analyzer's
\* precision and its sides are the fills of asks and of bids for that level.
C10_OneEntryPerKey ==
    (SpreadsDone /\ ValidOrderbook(market_orderbook) /\ AllPositive(levels)) =>
        /\ results.status = "return"
        /\ DOMAIN results.value =
               {LevelKey(levels[i]) : i \in 1..Len(levels)} \cup {"market_summary"}
        /\ \A i \in 1..Len(levels) :
               LET rec  == results.value[LevelKey(levels[i])]
                   last == levels[LastWithKey(levels, i)].v
               IN  /\ rec = MetricsFor(market_orderbook, last)
                   /\ rec.level_quote = quantize(last, precision)
                   /\ SidesAreFillsFor(rec, market_orderbook, last)

\* C10 witness: the levels 1.5 and 2.5 both format to "2": the mapping has
\* "2_QUOTE", holding the record of 2.5, and "market_summary".
C10_Witness ==
    /\ SpreadsDone
    /\ ValidOrderbook(market_orderbook)
    /\ levels = <<PyFloat(3, 2), PyFloat(5, 2)>>
    /\ results.status = "return"
    /\ DOMAIN results.value = {"2_QUOTE", "market_summary"}
    /\ results.value["2_QUOTE"].level_quote = quantize(<<5, 2>>, precision)

-----------------------------------------------------------------------------
(* Properties of the records of calculate_spreads.                         *)

\* the weighted fill prices of a level of value l on the two sides
BuyPrice(ob, l) ==
    get_weighted_price(precision, ob.d["asks"], l, TRUE).value.weighted_price
SellPrice(ob, l) ==
    get_weighted_price(precision, ob.d["bids"], l, FALSE).value.weighted_price

\* calculate_spreads has returned a mapping
SpreadsReturned == SpreadsDone /\ results.status = "return"

\* the record under the key of the requested level at i, and the value of
\* the requested level the record was computed for
RecordAt(i) == results.value[LevelKey(levels[i])]
LevelOfRecordAt(i) == levels[LastWithKey(levels, i)].v

\* the spread of two fill prices and their mid price
SpreadOf(bp, sp) ==
    IF DecGt(bp, Zero) /\ DecGt(sp, Zero) THEN DecSub(bp, sp) ELSE Zero
MidOf(bp, sp) == DecDiv(DecAdd(bp, sp), DecInt(2))

\* C11: in every SpreadMetrics record absolute_spread is buy - sell of the
\* two weighted fill prices when both are positive and 0 otherwise, rounded
\* half-up to 2 digits, and relative_spread_pct is that (unrounded) spread
\* divided by the mid price (buy + sell) / 2, times 100, when the mid price
\* is positive and 0 otherwise, rounded half-up to 4 digits.
C11_SpreadOfFillPrices ==
    SpreadsReturned =>
        \A i \in 1..Len(levels) :
            LET bp == BuyPrice(market_orderbook, LevelOfRecordAt(i))
                sp == SellPrice(market_orderbook, LevelOfRecordAt(i))
            IN  /\ RecordAt(i).absolute_spread = quantize(SpreadOf(bp, sp), 2)
                /\ RecordAt(i).relative_spread_pct =
                       IF DecGt(MidOf(bp, sp), Zero)
                       THEN quantize(DecMul(DecDiv(SpreadOf(bp, sp), MidOf(bp, sp)),
                                            DecInt(100)), 4)
                       ELSE Zero

\* C11 witness: asks [(100, 1)], bids [(99, 1)], level 150: the fills are
\* priced 100 and 99, the spread is 1 and 1 / 99.5 * 100 rounds to 1.0050.
C11_Witness ==
    /\ SpreadsReturned
    /\ levels = <<PyInt(150)>>
    /\ BuyPrice(market_orderbook, DecInt(150)) = DecInt(100)
    /\ SellPrice(market_orderbook, DecInt(150)) = DecInt(99)
    /\ RecordAt(1).absolute_spread = DecInt(1)
    /\ RecordAt(1).relative_spread_pct = <<201, 200>>

\* the prices of the first ask and of the first bid, as they stand
BestAsk(ob) == EntryPrice(ob.d["asks"][1])
BestBid(ob) == EntryPrice(ob.d["bids"][1])

\* C12: in every SpreadMetrics record market_impact_buy_pct is
\* (buy_price - best_ask) / best_ask * 100 when best_ask > 0 and 0 otherwise,
\* and market_impact_sell_pct is (best_bid - sell_price) / best_bid * 100
\* when best_bid > 0 and 0 otherwise (rounded half-up to 4 digits), best_ask
\* and best_bid being the unrounded prices of the first ask and the first
\* bid entry, whatever the quantity of that entry is.
C12_ImpactAgainstTopOfBook ==
    SpreadsReturned =>
        \A i \in 1..Len(levels) :
            LET bp == BuyPrice(market_orderbook, LevelOfRecordAt(i))
                sp == SellPrice(market_orderbook, LevelOfRecordAt(i))
                ba == BestAsk(market_orderbook)
                bb == BestBid(market_orderbook)
            IN  /\ RecordAt(i).market_impact_buy_pct =
                       IF DecGt(ba, Zero)
                       THEN quantize(DecMul(DecDiv(DecSub(bp, ba), ba), DecInt(100)), 4)
                       ELSE Zero
                /\ RecordAt(i).market_impact_sell_pct =
                       IF DecGt(bb, Zero)
                       THEN quantize(DecMul(DecDiv(DecSub(bb, sp), bb), DecInt(100)), 4)
                       ELSE Zero

\* C12 witness: asks [(100, 0), (101, 2)]: the first ask is skipped by the
\* fill, which is priced 101, and the impact is measured against 100:
\* (101 - 100) / 100 * 100 = 1.
C12_Witness ==
    /\ SpreadsReturned
    /\ market_orderbook.d["asks"] = << <<"100", "0">>, <<"101", "2">> >>
    /\ levels = <<PyInt(150)>>
    /\ BuyPrice(market_orderbook, DecInt(150)) = DecInt(101)
    /\ RecordAt(1).market_impact_buy_pct = DecInt(1)

\* C13: calculate_spreads never fails with a division error.  For an
\* orderbook with non-empty sides whose entries all parse (zero and negative
\* prices and quantities, sides without a fill and equal best prices
\* included) and positive requested levels the call returns, and every
\* quotient whose denominator is zero is 0 in the result: the price of a
\* fill without base, relative_spread_pct at a zero mid price, the impacts
\* at a zero best price and best_spread_pct at a zero mid price; equal best
\* bid and best ask give best_spread_pct = 0.
C13_NoDivisionError ==
    (SpreadsDone /\ ValidOrderbook(market_orderbook) /\ AllPositive(levels)) =>
        /\ results.status = "return"
        /\ LET ba == BestAsk(market_orderbook)
               bb == BestBid(market_orderbook)
               summary == results.value["market_summary"]
           IN  /\ ba = bb => summary.best_spread_pct = Zero
               /\ DecAdd(ba, bb) = Zero => summary.best_spread_pct = Zero
               /\ \A i \in 1..Len(levels) :
                      LET bp == BuyPrice(market_orderbook, LevelOfRecordAt(i))
                          sp == SellPrice(market_orderbook, LevelOfRecordAt(i))
                      IN  /\ DecAdd(bp, sp) = Zero =>
                                 RecordAt(i).relative_spread_pct = Zero
                          /\ ba = Zero => RecordAt(i).market_impact_buy_pct = Zero
                          /\ bb = Zero => RecordAt(i).market_impact_sell_pct = Zero

\* C13 witness: best ask and best bid both 0 and a requested level: both
\* sides are without a fill, every guarded denominator is zero and the call
\* returns zeros.
C13_Witness ==
    /\ SpreadsReturned
    /\ BestAsk(market_orderbook) = Zero
    /\ BestBid(market_orderbook) = Zero
    /\ Len(market_orderbook.d["asks"]) = 1
    /\ Len(levels) = 1
    /\ RecordAt(1).buy_price = Zero
    /\ RecordAt(1).relative_spread_pct = Zero
    /\ RecordAt(1).market_impact_buy_pct = Zero
    /\ results.value["market_summary"].best_spread_pct = Zero

-----------------------------------------------------------------------------
(* Properties of the market summary.                                       *)

Summary == results.value["market_summary"]

\* C14 as stated: when best_ask > best_bid, the best_spread of the returned
\* market summary is strictly greater than 0.
C14_AsStated ==
    (SpreadsReturned /\ DecGt(BestAsk(market_orderbook), BestBid(market_orderbook))) =>
        DecGt(Summary.best_spread, Zero)

\* C14 amended: when best_ask > best_bid, the best_spread of the returned
\* market summary is best_ask - best_bid rounded half-up to 2 digits: it is
\* never negative, and it is strictly greater than 0 when best_ask exceeds
\* best_bid by 0.005 or more.
C14_SpreadNotNegative ==
    (SpreadsReturned /\ DecGt(BestAsk(market_orderbook), BestBid(market_orderbook))) =>
        LET diff == DecSub(BestAsk(market_orderbook), BestBid(market_orderbook))
        IN  /\ Summary.best_spread = quantize(diff, 2)
            /\ DecGe(Summary.best_spread, Zero)
            /\ DecGe(diff, <<1, 200>>) => DecGt(Summary.best_spread, Zero)

\* C14 witness: best ask 101 over best bid 99, best_spread 2.
C14_Witness ==
    /\ SpreadsReturned
    /\ BestAsk(market_orderbook) = DecInt(101)
    /\ BestBid(market_orderbook) = DecInt(99)
    /\ Summary.best_spread = DecInt(2)

-----------------------------------------------------------------------------
(* The rounding policy of the records.                                     *)

\* the fills of a level of value l on the two sides
BuyFill(ob, l) == get_weighted_price(precision, ob.d["asks"], l, TRUE).value
SellFill(ob, l) == get_weighted_price(precision, ob.d["bids"], l, FALSE).value

\* the percentage a / b * 100, 0 when b is not positive
PctOf(a, b) ==
    IF DecGt(b, Zero) THEN DecMul(DecDiv(a, b), DecInt(100)) ELSE Zero

\* C15 as stated: every field of the returned records is its value rounded
\* half-up to the digits of its class: 2 for the price-like fields, 4 for
\* the percentage fields and 2 for the echo fields level_quote,
\* buy_filled_quote and sell_filled_quote.
C15_AsStated ==
    SpreadsReturned =>
        /\ \A i \in 1..Len(levels) :
               LET l  == LevelOfRecordAt(i)
                   bp == BuyPrice(market_orderbook, l)
                   sp == SellPrice(market_orderbook, l)
                   ba == BestAsk(market_orderbook)
                   bb == BestBid(market_orderbook)
               IN  /\ RecordAt(i).buy_price = quantize(bp, 2)
                   /\ RecordAt(i).sell_price = quantize(sp, 2)
                   /\ RecordAt(i).absolute_spread = quantize(SpreadOf(bp, sp), 2)
                   /\ RecordAt(i).relative_spread_pct =
                          quantize(PctOf(SpreadOf(bp, sp), MidOf(bp, sp)), 4)
                   /\ RecordAt(i).market_impact_buy_pct =
                          quantize(PctOf(DecSub(bp, ba), ba), 4)
                   /\ RecordAt(i).market_impact_sell_pct =
                          quantize(PctOf(DecSub(bb, sp), bb), 4)
                   /\ RecordAt(i).buy_filled_quote =
                          quantize(BuyFill(market_orderbook, l).actual_amount_filled, 2)
                   /\ RecordAt(i).sell_filled_quote =
                          quantize(SellFill(market_orderbook, l).actual_amount_filled, 2)
                   /\ RecordAt(i).level_quote = quantize(l, 2)
        /\ LET ba == BestAsk(market_orderbook)
               bb == BestBid(market_orderbook)
           IN  /\ Summary.best_bid = quantize(bb, 2)
               /\ Summary.best_ask = quantize(ba, 2)
               /\ Summary.best_spread = quantize(DecSub(ba, bb), 2)
               /\ Summary.best_spread_pct =
                      quantize(PctOf(DecSub(ba, bb), MidOf(ba, bb)), 4)

-----------------------------------------------------------------------------
(* C16: rounding of the result of get_weighted_price.                      *)

\* the number of fractional digits the analyzer was configured with
ConfiguredDigits == IF Len(configured) = 0 THEN 8 ELSE configured[1]

\* C16: the three fields of a returned fill are the exact accumulated values
\* (notional / base, notional, base) rounded half-up to the configured number
\* of fractional digits, 8 when none is configured, and the running totals
\* of the loop are the exact sums, never rounded.
C16_RoundedOnlyAtReturn ==
    /\ pc = "loop" =>
          /\ total_base_traded = DueBase(orders, idx - 1, target_amount)
          /\ total_quote_spent = DueQuote(orders, idx - 1, target_amount)
    /\ FillReturned /\ AllParse(orders) =>
          LET quote == DueQuote(orders, Len(orders), target_amount)
              base  == DueBase(orders, Len(orders), target_amount)
          IN  /\ ret.value.actual_amount_filled = quantize(quote, ConfiguredDigits)
              /\ ret.value.base_volume_traded = quantize(base, ConfiguredDigits)
              /\ ret.value.weighted_price =
                    IF DecGt(base, Zero)
                    THEN quantize(DecDiv(quote, base), ConfiguredDigits)
                    ELSE Zero

\* C16 witness: an analyzer constructed without a precision fills 1 from
\* [(3, 0.5)] and returns the base 1/3 as 0.33333333.
C16_Witness ==
    /\ FillReturned
    /\ configured = <<>>
    /\ orders = << <<"3", "0.5">> >>
    /\ target_amount = DecInt(1)
    /\ ret.value.base_volume_traded = <<33333333, 100000000>>
    /\ ret.value.actual_amount_filled = DecInt(1)
    /\ ret.value.weighted_price = DecInt(3)

-----------------------------------------------------------------------------
(* C17: what the market summary depends on.                                *)

\* the orderbook reduced to the price of its first ask, the price of its
\* first bid and its marketId, where it has one
TopOnly(ob) ==
    LET FirstPrice(side) ==
            IF Len(side) > 0 /\ Len(side[1]) > 0 THEN side[1][1] ELSE ""
        tops == [asks |-> << <<FirstPrice(ob.d["asks"]), "1">> >>,
                 bids |-> << <<FirstPrice(ob.d["bids"]), "1">> >>]
    IN  Dict(IF "marketId" \in DOMAIN ob.d
             THEN [marketId |-> ob.d["marketId"]] @@ tops
             ELSE tops)

\* C17: the market_summary of a returned analysis is the one returned for
\* the empty level sequence on the orderbook reduced to its first ask price,
\* first bid price and marketId; for the empty sequence it is the only entry;
\* its market_id is the orderbook's marketId, or "Unknown" without one.
C17_SummaryOfTopOfBook ==
    SpreadsReturned =>
        /\ "market_summary" \in DOMAIN results.value
        /\ LET reduced == calculate_spreads(precision, TopOnly(market_orderbook), <<>>)
           IN  /\ reduced.status = "return"
               /\ Summary = reduced.value["market_summary"]
        /\ Len(levels) = 0 => DOMAIN results.value = {"market_summary"}
        /\ Summary.market_id =
              IF "marketId" \in DOMAIN market_orderbook.d
              THEN market_orderbook.d["marketId"] ELSE "Unknown"

\* C17 witness: an orderbook without marketId and with a second, larger ask,
\* analysed at one level: the summary carries the first ask and "Unknown".
C17_Witness ==
    /\ SpreadsReturned
    /\ Len(levels) = 1
    /\ "marketId" \notin DOMAIN market_orderbook.d
    /\ market_orderbook.d["asks"] = << <<"100", "1">>, <<"101", "2">> >>
    /\ Summary.best_ask = DecInt(100)
    /\ Summary.market_id = "Unknown"
    /\ DOMAIN results.value # {"market_summary"}

-----------------------------------------------------------------------------
(* Vocabulary of the claims about aggregate_bars.                          *)

AggregateDone == pc = "aggregate_done"

\* the call returned a bar
BarReturned ==
    AggregateDone /\ aggregated.status = "return" /\ aggregated.value.type = "list"

\* the call returned the no-data sentinel
NoDataReturned ==
    AggregateDone /\ aggregated.status = "return" /\ aggregated.value.type = "NoneType"

\* the item has a payload of at least 9 fields
Complete(bar) ==
    /\ "data" \in DOMAIN bar
    /\ bar["data"].type = "list"
    /\ Len(bar["data"].items) >= 9

SomeComplete == \E i \in 1..Len(bars) : Complete(bars[i])

\* the fields of the returned bar
Open == aggregated.value.items[1]
High == aggregated.value.items[2]
Low == aggregated.value.items[3]
Close == aggregated.value.items[4]

-----------------------------------------------------------------------------
(* C18: the no-data sentinel.                                              *)

\* C18: aggregate_bars raises nothing and returns None when bars is empty
\* or holds no item with a payload of at least 9 fields, and returns a bar
\* of 9 fields when some item has one.
C18_AsStated ==
    AggregateDone =>
        IF SomeComplete
        THEN BarReturned /\ Len(aggregated.value.items) = 9
        ELSE NoDataReturned

-----------------------------------------------------------------------------
(* C19: open and close.                                                    *)

\* the k-th field of an item's payload, as a set: empty when the item has
\* no such field
FieldOf(bar, k) ==
    IF "data" \in DOMAIN bar /\ bar["data"].type = "list"
       /\ Len(bar["data"].items) >= k
    THEN {bar["data"].items[k]} ELSE {}

\* the items with a complete payload, in the order of the input
CompleteBars == SelectSeq(bars, Complete)

\* C19 as stated: a returned bar has the open of bars[0] and the close of
\* the last item of bars.
C19_AsStated ==
    BarReturned =>
        /\ Open \in FieldOf(bars[1], 1)
        /\ Close \in FieldOf(bars[Len(bars)], 4)

\* C19 amended: a returned bar has the open of the first item of bars with
\* a complete payload and the close of the last item with a complete
\* payload, in the order of the input, whatever the values.
C19_OpenCloseOfComplete ==
    BarReturned =>
        /\ Len(CompleteBars) > 0
        /\ Open \in FieldOf(CompleteBars[1], 1)
        /\ Close \in FieldOf(CompleteBars[Len(CompleteBars)], 4)

\* C19 witness: an item of eight fields, then B2, then B1: the bar opens
\* with B2's 11, not with the item's 14 and not with the lower 10 of B1,
\* and closes with B1's 11.
C19_Witness ==
    /\ BarReturned
    /\ Len(bars) = 3
    /\ Len(GetData(bars[1]).items) = 8
    /\ bars[2] = B2
    /\ bars[3] = B1
    /\ Open = DecInt(11)
    /\ Close = DecInt(11)

-----------------------------------------------------------------------------
(* C20: high and low.                                                      *)

\* the sequences that hold the items of s in another order
Reorderings(s) ==
    { [i \in 1..Len(s) |-> s[p[i]]] :
        p \in {q \in [1..Len(s) -> 1..Len(s)] :
                  \A i, j \in 1..Len(s) : q[i] = q[j] => i = j} }

\* the k-th fields of the constituent bars, the items with a complete payload
FieldsOfComplete(k) ==
    {CompleteBars[i]["data"].items[k] : i \in 1..Len(CompleteBars)}

\* C20: the high of a returned bar is the greatest high and its low the
\* least low of the constituent bars; every permutation of the input
\* returns a bar of the same high and low; B1, B2 give open 10, high 13,
\* low 9, close 12 and B2, B1 give open 11, high 13, low 9, close 11.
C20_HighLowWhateverTheOrder ==
    /\ BarReturned =>
          /\ High \in FieldsOfComplete(2)
          /\ \A h \in FieldsOfComplete(2) : DecGe(High, h)
          /\ Low \in FieldsOfComplete(3)
          /\ \A l \in FieldsOfComplete(3) : DecLe(Low, l)
          /\ \A p \in Reorderings(bars) :
                LET permuted == aggregate_bars(p)
                IN  /\ permuted.status = "return"
                    /\ permuted.value.type = "list"
                    /\ permuted.value.items[2] = High
                    /\ permuted.value.items[3] = Low
    /\ AggregateDone /\ bars = <<B1, B2>> =>
          /\ BarReturned
          /\ <<Open, High, Low, Close>> = <<DecInt(10), DecInt(13), DecInt(9), DecInt(12)>>
    /\ AggregateDone /\ bars = <<B2, B1>> =>
          /\ BarReturned
          /\ <<Open, High, Low, Close>> = <<DecInt(11), DecInt(13), DecInt(9), DecInt(11)>>

\* C20 witness: B2 before B1 has been aggregated: the high is B2's, the low
\* B1's, the open B2's and the close B1's.
C20_Witness ==
    /\ BarReturned
    /\ bars = <<B2, B1>>
    /\ High = DecInt(13)
    /\ Low = DecInt(9)
    /\ Open = DecInt(11)
    /\ Close = DecInt(11)

-----------------------------------------------------------------------------
(* C21: the pooled extremes.                                               *)

SpreadMin == aggregated.value.items[5]
SpreadQ1 == aggregated.value.items[6]
SpreadMedian == aggregated.value.items[7]
SpreadQ3 == aggregated.value.items[8]
SpreadMax == aggregated.value.items[9]

\* the spread values of the constituent bars, pooled
Pooled == UNION {FieldsOfComplete(k) : k \in 5..9}

\* the bar's spread_min is the least and its spread_max the greatest of its
\* five spread values, as in every five-number summary
ExtremesInPlace(bar) ==
    \A k \in 5..9 : /\ DecLe(bar["data"].items[5], bar["data"].items[k])
                    /\ DecGe(bar["data"].items[9], bar["data"].items[k])

\* v is the least value of the set S
IsLeast(v, S) == v \in S /\ \A w \in S : DecLe(v, w)
\* v is the greatest value of the set S
IsGreatest(v, S) == v \in S /\ \A w \in S : DecGe(v, w)

-----------------------------------------------------------------------------
(* C22: rounding of the aggregated bar.                                    *)

\* C22: every field of a returned bar is a value of 2 fractional digits,
\* rounded half-up, the interpolated quartiles and the median included.
C22_AsStated ==
    BarReturned =>
        \A k \in 1..9 :
            aggregated.value.items[k] = quantize(aggregated.value.items[k], 2)

-----------------------------------------------------------------------------
(* C23: get_weighted_price keeps no state.                                 *)

-----------------------------------------------------------------------------
(* C24: the walk follows the order of the list.                            *)

\* C24: every call whose entries parse returns the totals of the walk over
\* the levels in the order listed, the first valid level being consumed
\* first whatever the prices of the later ones, and returns the same for
\* is_buying true and false.
C24_WalksInListedOrder ==
    \A i \in 1..Len(calls) :
        LET c == calls[i] IN
        /\ AllParse(c.orders) =>
              /\ c.outcome.status = "return"
              /\ c.outcome.value.actual_amount_filled =
                     quantize(DueQuote(c.orders, Len(c.orders), c.target), precision)
              /\ c.outcome.value.base_volume_traded =
                     quantize(DueBase(c.orders, Len(c.orders), c.target), precision)
        /\ \A j \in 1..Len(calls) :
              /\ calls[j].orders = c.orders
              /\ calls[j].target = c.target
              /\ calls[j].is_buying # c.is_buying
              => calls[j].outcome = c.outcome

\* C24 witness: a buy and a sale of 1 from (4, 0.5), (3, 0.5) both pay the
\* first listed price 4 for 0.25 of base, not the better price 3.
C24_Witness ==
    /\ Len(calls) >= 2
    /\ calls[1].orders = << <<"4", "0.5">>, <<"3", "0.5">> >>
    /\ calls[1].target = DecInt(1)
    /\ calls[1].is_buying
    /\ calls[2].orders = calls[1].orders
    /\ calls[2].target = DecInt(1)
    /\ ~calls[2].is_buying
    /\ calls[1].outcome.value.weighted_price = DecInt(4)
    /\ calls[1].outcome.value.base_volume_traded = <<1, 4>>
    /\ calls[2].outcome = calls[1].outcome

-----------------------------------------------------------------------------
(* C25: a level that is not positive.                                      *)

\* C25: on an orderbook whose sides are not empty and whose entries all
\* parse, a requested level that is zero or negative, at whatever position,
\* makes calculate_spreads raise the error of the rejected target: no
\* mapping is returned, neither the other levels nor the market summary.
C25_NonPositiveLevelAborts ==
    SpreadsDone /\ ValidOrderbook(market_orderbook) /\ ~AllPositive(levels) =>
        /\ IsInvalidArgument(results)
        /\ results.value = <<>>

\* C25 witness: 150 has been analysed before the level -1 is reached, and
\* the call still ends with the error alone.
C25_Witness ==
    /\ SpreadsDone
    /\ ValidOrderbook(market_orderbook)
    /\ levels = <<PyInt(150), PyInt(-1)>>
    /\ IsInvalidArgument(results)

-----------------------------------------------------------------------------
(* C26: the spread summary is ordered.                                     *)

RECURSIVE SpreadsOf(_)
\* the five spread values of each of the bars bs, in one sequence
SpreadsOf(bs) ==
    IF Len(bs) = 0 THEN <<>>
    ELSE SubSeq(Head(bs)["data"].items, 5, 9) \o SpreadsOf(Tail(bs))

\* C26: the spread fields of a returned bar rise from min over q1, median
\* and q3 to max, also for constituents whose own five values are out of
\* order, and the median is the second of the three cut points that the
\* quartile method of q1 and q3 gives for the pooled values.
C26_OrderedSummary ==
    BarReturned =>
        /\ DecLe(SpreadMin, SpreadQ1)
        /\ DecLe(SpreadQ1, SpreadMedian)
        /\ DecLe(SpreadMedian, SpreadQ3)
        /\ DecLe(SpreadQ3, SpreadMax)
        /\ LET cuts == quantiles(SpreadsOf(CompleteBars), 4)
           IN  /\ SpreadQ1 = cuts[1]
               /\ SpreadMedian = cuts[2]
               /\ SpreadQ3 = cuts[3]

\* C26 witness: the bar whose five spread values are 3.5, 0.25, 2, 0.5, 1,
\* pooled with B1: ten values with the cut points 0.875, 2 and 3.625.
C26_Witness ==
    /\ BarReturned
    /\ Len(bars) = 2
    /\ bars[2] = B1
    /\ Complete(bars[1])
    /\ bars[1]["data"].items[5] = <<7, 2>>
    /\ SpreadMin = <<1, 4>>
    /\ SpreadQ1 = <<7, 8>>
    /\ SpreadMedian = DecInt(2)
    /\ SpreadQ3 = <<29, 8>>
    /\ SpreadMax = DecInt(5)

-----------------------------------------------------------------------------
(* C27: rolling up in two stages.                                          *)

RECURSIVE GroupsFrom(_, _, _)
\* s from position from on, cut into consecutive groups that end at the
\* positions in cuts and at the end of s
GroupsFrom(s, cuts, from) ==
    IF from > Len(s) THEN <<>>
    ELSE LET to == CHOOSE c \in (cuts \cup {Len(s)}) :
                       /\ c >= from
                       /\ \A d \in (cuts \cup {Len(s)}) : d >= from => c <= d
         IN  <<SubSeq(s, from, to)>> \o GroupsFrom(s, cuts, to + 1)

\* the ways of cutting s into consecutive non-empty groups
Groupings(s) == {GroupsFrom(s, cuts, 1) : cuts \in SUBSET (1..(Len(s) - 1))}

\* the aggregates of the groups, stored as items and aggregated again
TwoStage(groups) ==
    aggregate_bars([g \in 1..Len(groups) |->
                       Item(aggregate_bars(groups[g]).value)])

\* the order-statistics fields: open, high, low, close, spread min and max
OrderFields == {1, 2, 3, 4, 5, 9}

\* C27: for bars that are all complete, aggregating the aggregates of
\* consecutive groups gives the open, high, low, close, spread min and
\* spread max of aggregating all the bars at once.
C27_TwoStageAgrees ==
    BarReturned /\ (\A i \in 1..Len(bars) : Complete(bars[i])) =>
        \A groups \in Groupings(bars) :
            LET rolled == TwoStage(groups)
            IN  /\ rolled.status = "return"
                /\ rolled.value.type = "list"
                /\ \A k \in OrderFields :
                      rolled.value.items[k] = aggregated.value.items[k]

\* C27 witness: B1, the bar of halves and quarters and B2, rolled up as B1
\* alone and the other two together: the quartiles of the two routes are
\* not the same, the order fields are.
C27_Witness ==
    /\ BarReturned
    /\ Len(bars) = 3
    /\ bars[1] = B1
    /\ bars[3] = B2
    /\ Complete(bars[2])
    /\ bars[2]["data"].items[5] = <<7, 2>>
    /\ High = <<27, 2>>
    /\ TwoStage(<< <<bars[1]>>, <<bars[2], bars[3]>> >>).value.items[2] = High
    /\ TwoStage(<< <<bars[1]>>, <<bars[2], bars[3]>> >>).value.items[7] # SpreadMedian

-----------------------------------------------------------------------------
(* C28: items without a complete payload.                                  *)

\* C28: the call ends as the call on the items with a complete payload
\* ends: the items with fewer than 9 fields contribute nothing.
C28_AsStated ==
    AggregateDone => aggregated = aggregate_bars(CompleteBars)

-----------------------------------------------------------------------------
(* C29: what the roll-ups store and count.                                 *)

RollupReturned == pc = "rollup_done" /\ rollup.status = "return"

\* the items of the m-th market that lie in the window
WindowOf(m) ==
    ItemsFrom(table, Markets[m] \o FineSuffix(aggregation_type),
              WindowStart, WindowEnd)

\* aggregate_bars returns a bar for the window of the m-th market
BarFor(m) ==
    LET whole == aggregate_bars(WindowOf(m))
    IN  whole.status = "return" /\ whole.value.type = "list"

\* the table holds a coarser item of the m-th market
Written(m) ==
    \E i \in table : i.marketid = Markets[m] \o CoarseSuffix(aggregation_type)

\* C29: a roll-up has written a coarser item for a market only if
\* aggregate_bars returns a bar for the market's window, and has counted no
\* more markets than those.
C29_AsStated ==
    pc \in {"rollup_loop", "rollup_done"} =>
        /\ \A m \in 1..Len(Markets) : Written(m) => BarFor(m)
        /\ processed_items <= Cardinality({m \in 1..Len(Markets) : BarFor(m)})

-----------------------------------------------------------------------------
(* Properties of store_in_dynamodb.                                        *)

\* the last pass of scrape_handler stored the result of its market
StoredBar ==
    /\ pc \in {"scrape_loop", "scrape_done"}
    /\ stored.outcome.status = "return"

\* the items of the table under the key (market_id + "_1m", timestamp) of
\* the last pass
StoredItems ==
    {i \in table :
        /\ i.marketid = results.value["market_summary"].market_id \o "_1m"
        /\ i.timestamp = stored.timestamp}

\* C30: store_in_dynamodb writes, under the key (market_id + "_1m",
\* timestamp), a bar of exactly nine fields: open, high, low and close are
\* the mid price (buy_price + sell_price) / 2 of the 10000_QUOTE level and
\* the five spread fields are the absolute_spread of that level.
C30_AsStated ==
    StoredBar =>
        /\ Cardinality(StoredItems) = 1
        /\ \A i \in StoredItems :
             /\ Len(i.data.items) = RequiredFields
             /\ \A k \in 1..4 :
                  i.data.items[k] =
                      DecDiv(DecAdd(results.value["10000_QUOTE"].buy_price,
                                    results.value["10000_QUOTE"].sell_price),
                             DecInt(2))
             /\ \A k \in 5..RequiredFields :
                  i.data.items[k] = results.value["10000_QUOTE"].absolute_spread

====
